---- MODULE Spec2Model ----
(***************************************************************************)
(* Model of the natural-language chat loop of the planes repository:       *)
(* the Express handler POST /sendMessage (moose/app/apis/chat.ts) with its *)
(* agentic loop, the MCP tool call it makes, and the streaming POST        *)
(* handler of the frontend.  Strings that the code inspects character by   *)
(* character (model text, trimmed) are sequences of one-character strings. *)
(***************************************************************************)
EXTENDS Integers, Sequences, FiniteSets, TLC

VARIABLES
    pc,             \* position of the handler: idle, loop, model, blocks, tool,
                    \* list (streaming handler awaiting tools/list), done
    route,          \* which handler serves the request: "backend" or "stream"
    req,            \* the request: [message, apiKey]
    messages,       \* conversation history sent to the model
    sql,            \* let sql
    data,           \* let data
    finalResponse,  \* let finalResponse
    iterations,     \* const iterations
    continueLoop,   \* let continueLoop
    iterationCount, \* let iterationCount
    response,       \* the model response being processed
    blockIdx,       \* index of the next content block of response
    iterationText,  \* let iterationText
    iterationSql,   \* let iterationSql
    iterationData,  \* let iterationData
    toolResults,    \* toolResults.content
    res,            \* HTTP responses sent for the request, in order
    modelLog,       \* observation: every model invocation and how it ended
    toolLog,        \* observation: every tool call issued and how it ended
    health,         \* responses of GET /health, in order
    listLog,        \* observation: every tools/list request and how it ended
    tools,          \* the tool catalog built for the streaming run
    stepCount,      \* let stepCount
    stepStartTime,  \* let stepStartTime
    clock,          \* Date.now()
    events,         \* the tool-timing events written to the stream
    run,            \* the streaming run: none, steps, finished
    stepLog,        \* observation: every completed step of the streaming run
    toolCall,       \* observation: the last tool call, traced from the
                    \* arguments the model gave to the rows handed back
    sessions,       \* the handler-local state of concurrent requests
    sidebar         \* the state of the ChatSidebar component

vars == <<pc, route, req, messages, sql, data, finalResponse, iterations,
          continueLoop, iterationCount, response, blockIdx, iterationText,
          iterationSql, iterationData, toolResults, res, modelLog, toolLog,
          health, listLog, tools, stepCount, stepStartTime, clock, events,
          run, stepLog, toolCall, sessions,
          sidebar>>

\* what the handlers of POST /sendMessage leave alone
sideVars == <<health, listLog, tools, stepCount, stepStartTime, clock, events,
              run, stepLog, toolCall, sessions,
              sidebar>>

\* the state of the streaming run
streamVars == <<listLog, tools, stepCount, stepStartTime, clock, events, run,
                stepLog>>

----------------------------------------------------------------------------
(* Bounds of the model *)

\* What the model and the tool endpoint may do in one run beyond the plain
\* run, in which every response is one query_clickhouse call that is answered
\* with rows: the number of text blocks, calls of another tool or query,
\* further blocks in a response and other answers of the endpoint, together.
MaxVaried == 2

\* content blocks in one model response
MaxBlocks == MaxVaried + 1

(* Program constant *)
maxIterations == 5

----------------------------------------------------------------------------
(* Text: sequences of one-character strings *)

IsSpace(c) == c = " "

RECURSIVE TrimStart(_)
TrimStart(s) ==
    IF s = <<>> THEN <<>>
    ELSE IF IsSpace(Head(s)) THEN TrimStart(Tail(s)) ELSE s

RECURSIVE TrimEnd(_)
TrimEnd(s) ==
    IF s = <<>> THEN <<>>
    ELSE IF IsSpace(s[Len(s)]) THEN TrimEnd(SubSeq(s, 1, Len(s) - 1)) ELSE s

\* String.prototype.trim
Trim(s) == TrimEnd(TrimStart(s))

\* JavaScript truthiness of a string or an array length
Truthy(s) == Len(s) > 0

----------------------------------------------------------------------------
(* Inputs *)

\* req.body.message: absent, a string, or a value of another type
MessageValues ==
    { [type |-> "undefined", value |-> <<>>],
      [type |-> "string", value |-> <<>>],
      [type |-> "string", value |-> <<"h", "i">>],
      [type |-> "number", value |-> <<"4", "2">>] }

\* InvalidMessage without the !message test
InvalidMessageTypeOnly(m) == m.type # "string"

\* !message || typeof message !== "string"
InvalidMessage(m) ==
    \/ m.type = "undefined"
    \/ (m.type = "string" /\ ~Truthy(m.value))
    \/ m.type # "string"

StopReasons == {"end_turn", "tool_use", "max_tokens"}

TextValues == { <<"a">>, <<"b">>, <<" ">> }

TextBlocks == { [type |-> "text", text |-> t] : t \in TextValues }

\* block.input.query: "" stands for an absent or empty query
QueryValues == {"", "SELECT 1", "SELECT 2"}

ToolUseBlocks ==
    { [type |-> "tool_use", name |-> "query_clickhouse", input |-> [query |-> q]] :
        q \in QueryValues }
    \cup { [type |-> "tool_use", name |-> "describe_table",
            input |-> [query |-> "SELECT 1"]] }

Blocks == TextBlocks \cup ToolUseBlocks

Contents == UNION { [1..n -> Blocks] : n \in 0..MaxBlocks }

\* the plain tool call: the declared tool with a query
PlainBlock == [type |-> "tool_use", name |-> "query_clickhouse",
               input |-> [query |-> "SELECT 1"]]

RECURSIVE CountType(_, _)
CountType(content, ty) ==
    IF content = <<>> THEN 0
    ELSE (IF Head(content).type = ty THEN 1 ELSE 0) + CountType(Tail(content), ty)

\* tool_use blocks need the id the provider gives them: unique within the run
WithIds(content, iter) ==
    [i \in 1..Len(content) |->
        IF content[i].type = "tool_use"
        THEN [type |-> "tool_use", id |-> <<iter, i>>,
              name |-> content[i].name, input |-> content[i].input]
        ELSE content[i]]

----------------------------------------------------------------------------
(* The tool endpoint, as callMcpTool sees it *)

\* JSON texts a tool result can carry in content[0].text
RowsJson == "{\"rows\":[\"r2\"],\"rowCount\":1}"
StructuredJson == "{\"rows\":[\"r1\"],\"rowCount\":1}"
NoRowsJson == "{\"rowCount\":0}"
NullJson == "null"
QueryErrorText == "Error executing query: boom"

\* JSON.parse: the parsed object, null, or a SyntaxError
JSONParse(text) ==
    IF text = RowsJson THEN [kind |-> "object", value |-> [rows |-> <<"r2">>]]
    ELSE IF text = StructuredJson THEN [kind |-> "object", value |-> [rows |-> <<"r1">>]]
    ELSE IF text = NoRowsJson THEN [kind |-> "object", value |-> [rowCount |-> 0]]
    ELSE IF text = NullJson THEN [kind |-> "null"]
    ELSE [kind |-> "error", message |-> "Unexpected token"]

\* result.result payloads of the endpoint
McpResults ==
    { [structuredContent |-> [rows |-> <<"r1">>],
       content |-> <<[type |-> "text", text |-> "{\"rows\":[\"r1\"],\"rowCount\":1}"]>>],
      [structuredContent |-> [rowCount |-> 0]],
      [content |-> <<[type |-> "text", text |-> RowsJson]>>],
      [content |-> <<[type |-> "text", text |-> NoRowsJson]>>],
      [content |-> <<[type |-> "text", text |-> NullJson]>>],
      [content |-> <<[type |-> "text", text |-> QueryErrorText]>>, isError |-> TRUE],
      [content |-> <<>>] }

\* the plain answer: what the query_clickhouse tool returns for a query that ran
PlainOutcome ==
    [kind |-> "json", body |-> [result |->
        [structuredContent |-> [rows |-> <<"r1">>],
         content |-> <<[type |-> "text", text |-> "{\"rows\":[\"r1\"],\"rowCount\":1}"]>>]]]

\* what fetch and response.json() produce for one tools/call request
FetchOutcomes ==
    { [kind |-> "reject", message |-> "fetch failed"] }
    \cup { [kind |-> "json", body |-> [error |-> [message |-> "syntax error"]]],
           [kind |-> "json", body |-> [error |-> [code |-> 500]]],
           [kind |-> "json", body |-> [jsonrpc |-> "2.0"]] }
    \cup { [kind |-> "json", body |-> [result |-> r]] : r \in McpResults }

\* the answers the endpoint gives within a run of the loop: the transport
\* fails, an error envelope, rows as structured content and text, structured
\* content without rows, rows as JSON text only, the text of a failed query,
\* an empty content
RunOutcomes ==
    { [kind |-> "reject", message |-> "fetch failed"],
      [kind |-> "json", body |-> [error |-> [message |-> "syntax error"]]],
      PlainOutcome,
      [kind |-> "json", body |-> [result |-> [structuredContent |-> [rowCount |-> 0]]]],
      [kind |-> "json", body |-> [result |->
          [content |-> <<[type |-> "text", text |-> RowsJson]>>]]],
      [kind |-> "json", body |-> [result |->
          [content |-> <<[type |-> "text", text |-> QueryErrorText]>>,
           isError |-> TRUE]]],
      [kind |-> "json", body |-> [result |-> [content |-> <<>>]]] }

\* callMcpTool: throws (the catch rethrows) or returns result.result
callMcpTool(outcome) ==
    IF outcome.kind = "reject"
    THEN [status |-> "throw", message |-> outcome.message]
    ELSE IF "error" \in DOMAIN outcome.body
    THEN [status |-> "throw",
          message |-> IF "message" \in DOMAIN outcome.body.error
                      THEN outcome.body.error.message
                      ELSE "MCP tool call failed"]
    ELSE IF "result" \in DOMAIN outcome.body
    THEN [status |-> "return", value |-> outcome.body.result]
    ELSE [status |-> "return"]

\* mcpResult.content?.[0]?.text, "" when there is none
FirstText(r) ==
    IF "content" \in DOMAIN r /\ Len(r.content) >= 1 /\ "text" \in DOMAIN r.content[1]
    THEN r.content[1].text
    ELSE ""

\* The body of the try block around the tool call: what the call leaves in
\* the iteration and run accumulators and which tool result it pushes.
\*   rows: the rows assigned to iterationData and data, when assigned
\*   failed: the catch block ran
ToolCallEffect(ret) ==
    IF ret.status = "throw"
    THEN [failed |-> TRUE, assigns |-> FALSE, message |-> ret.message]
    ELSE IF "value" \notin DOMAIN ret
    THEN [failed |-> TRUE, assigns |-> FALSE,
          message |-> "Cannot read properties of undefined"]
    ELSE IF "structuredContent" \in DOMAIN ret.value
    THEN [failed |-> FALSE, assigns |-> TRUE,
          rows |-> IF "rows" \in DOMAIN ret.value.structuredContent
                   THEN ret.value.structuredContent.rows ELSE <<>>]
    ELSE IF FirstText(ret.value) # ""
    THEN LET parsed == JSONParse(FirstText(ret.value)) IN
         IF parsed.kind = "error"
         THEN [failed |-> TRUE, assigns |-> FALSE, message |-> parsed.message]
         ELSE IF parsed.kind = "null"
         THEN [failed |-> TRUE, assigns |-> FALSE,
               message |-> "Cannot read properties of null"]
         ELSE [failed |-> FALSE, assigns |-> TRUE,
               rows |-> IF "rows" \in DOMAIN parsed.value
                        THEN parsed.value.rows ELSE <<>>]
    ELSE [failed |-> FALSE, assigns |-> FALSE]

\* ToolResultBlock whose catch block forgets is_error
ToolResultBlockNoFlag(block, ret) ==
    LET eff == ToolCallEffect(ret) IN
    IF eff.failed
    THEN [type |-> "tool_result", tool_use_id |-> block.id,
          content |-> [error |-> eff.message]]
    ELSE [type |-> "tool_result", tool_use_id |-> block.id,
          content |-> IF FirstText(ret.value) # ""
                      THEN [text |-> FirstText(ret.value)]
                      ELSE [stringified |-> ret.value]]

\* ToolResultBlock that answers every call of a response under the identifier
\* of the response's first block
ToolResultBlockFirstId(block, ret) ==
    LET eff == ToolCallEffect(ret) IN
    IF eff.failed
    THEN [type |-> "tool_result", tool_use_id |-> <<block.id[1], 1>>,
          content |-> [error |-> eff.message], is_error |-> TRUE]
    ELSE [type |-> "tool_result", tool_use_id |-> <<block.id[1], 1>>,
          content |-> IF FirstText(ret.value) # ""
                      THEN [text |-> FirstText(ret.value)]
                      ELSE [stringified |-> ret.value]]

\* the tool_result block pushed for a tool_use block
ToolResultBlock(block, ret) ==
    LET eff == ToolCallEffect(ret) IN
    IF eff.failed
    THEN [type |-> "tool_result", tool_use_id |-> block.id,
          content |-> [error |-> eff.message], is_error |-> TRUE]
    ELSE [type |-> "tool_result", tool_use_id |-> block.id,
          content |-> IF FirstText(ret.value) # ""
                      THEN [text |-> FirstText(ret.value)]
                      ELSE [stringified |-> ret.value]]

----------------------------------------------------------------------------
(* Observations of the run *)

\* model invocations made so far (answered or not)
modelCalls == Len(modelLog)

RECURSIVE VariedBlocks(_)
\* tool_use blocks of a content that are not the plain call
VariedBlocks(content) ==
    IF content = <<>> THEN 0
    ELSE (IF Head(content).type = "tool_use" /\ Head(content) # PlainBlock
          THEN 1 ELSE 0) + VariedBlocks(Tail(content))

\* what a response takes from MaxVaried
ContentCost(content) ==
    CountType(content, "text") + VariedBlocks(content)
    + (IF CountType(content, "tool_use") > 1
       THEN CountType(content, "tool_use") - 1 ELSE 0)

RECURSIVE ModelCost(_)
ModelCost(log) ==
    IF log = <<>> THEN 0
    ELSE (IF Head(log).outcome \in StopReasons THEN ContentCost(Head(log).content) ELSE 0)
         + ModelCost(Tail(log))

RECURSIVE ToolCost(_)
ToolCost(log) ==
    IF log = <<>> THEN 0
    ELSE (IF Head(log).settled /\ Head(log).outcome # PlainOutcome THEN 1 ELSE 0)
         + ToolCost(Tail(log))

\* what the run has taken from MaxVaried so far
Spent == ModelCost(modelLog) + ToolCost(toolLog)

\* the response contents of each cost
ContentsByCost ==
    [k \in 0..MaxVaried |-> {d : d \in {c \in Contents : ContentCost(c) <= k}}]

\* the responses the bound still allows the model to give
AffordableContents == ContentsByCost[MaxVaried - Spent]

\* the answers the bound still allows the tool endpoint to give
AffordableOutcomes ==
    IF Spent + 1 <= MaxVaried THEN RunOutcomes ELSE {PlainOutcome}

RECURSIVE TextOf(_)
\* the text blocks of a response content, concatenated in order
TextOf(content) ==
    IF content = <<>> THEN <<>>
    ELSE (IF Head(content).type = "text" THEN Head(content).text ELSE <<>>)
         \o TextOf(Tail(content))

SetLast(seq, v) == [seq EXCEPT ![Len(seq)] = v]

----------------------------------------------------------------------------
(* POST /sendMessage *)

\* the chat requests that are served concurrently
Requests == {1, 2}

\* a request that has not arrived: what it is given, how many of its awaited
\* calls have resolved, and the variables of its handler invocation
NoRequest == [given |-> [kind |-> "none"], taken |-> 0, local |-> [at |-> "idle"]]

Init ==
    /\ pc = "idle"
    /\ route = "none"
    /\ req = [message |-> [type |-> "undefined", value |-> <<>>], apiKey |-> FALSE]
    /\ messages = <<>>
    /\ sql = ""
    /\ data = <<>>
    /\ finalResponse = <<>>
    /\ iterations = <<>>
    /\ continueLoop = FALSE
    /\ iterationCount = 0
    /\ response = [stop_reason |-> "none", content |-> <<>>]
    /\ blockIdx = 0
    /\ iterationText = <<>>
    /\ iterationSql = ""
    /\ iterationData = <<>>
    /\ toolResults = <<>>
    /\ res = <<>>
    /\ modelLog = <<>>
    /\ toolLog = <<>>
    /\ health = <<>>
    /\ listLog = <<>>
    /\ tools = [built |-> FALSE]
    /\ stepCount = 0
    /\ stepStartTime = 0
    /\ clock = 0
    /\ events = <<>>
    /\ run = "none"
    /\ stepLog = <<>>
    /\ toolCall = [variant |-> "none"]
    /\ sessions = [r \in Requests |-> NoRequest]
    /\ sidebar = [messages |-> <<>>, input |-> <<>>, isLoading |-> FALSE,
                  fetches |-> <<>>, ignored |-> {}]

loopVars == <<messages, sql, data, finalResponse, iterations, continueLoop,
              iterationCount>>
stepVars == <<response, blockIdx, iterationText, iterationSql, iterationData,
              toolResults>>

\* the request arrives: validation, API key check, the loop's variables
SendMessage(m, key) ==
    /\ pc = "idle"
    /\ route' = "backend"
    /\ req' = [message |-> m, apiKey |-> key]
    /\ IF InvalidMessage(m)
       THEN /\ res' = Append(res, [status |-> 400,
                        body |-> [error |-> "Message is required and must be a string"]])
            /\ pc' = "done"
            /\ UNCHANGED loopVars
       ELSE IF ~key
       THEN /\ res' = Append(res, [status |-> 500,
                        body |-> [error |-> "ANTHROPIC_API_KEY environment variable not set"]])
            /\ pc' = "done"
            /\ UNCHANGED loopVars
       ELSE /\ messages' = <<[role |-> "user", content |-> m.value]>>
            /\ sql' = ""
            /\ data' = <<>>
            /\ finalResponse' = <<>>
            /\ iterations' = <<>>
            /\ continueLoop' = TRUE
            /\ iterationCount' = 0
            /\ pc' = "loop"
            /\ UNCHANGED res
    /\ UNCHANGED <<stepVars, modelLog, toolLog>>
    /\ UNCHANGED sideVars

\* LoopGuard with the comparison off by one
LoopGuardOffByOne == continueLoop /\ iterationCount <= maxIterations

\* while (continueLoop && iterationCount < maxIterations)
LoopGuard == continueLoop /\ iterationCount < maxIterations

\* the loop is entered once more: iterationCount++ and the model is invoked
CallClaude ==
    /\ pc = "loop"
    /\ LoopGuard
    /\ iterationCount' = iterationCount + 1
    /\ modelLog' = Append(modelLog, [outcome |-> "pending"])
    /\ pc' = "model"
    /\ UNCHANGED <<route, req, messages, sql, data, finalResponse, iterations,
                   continueLoop, stepVars, res, toolLog>>
    /\ UNCHANGED sideVars

\* ClaudeThrows with a handler that swallows the rejection and loops again
ClaudeThrowsRetry(msg) ==
    /\ pc = "model"
    /\ modelLog' = SetLast(modelLog, [outcome |-> "throw", message |-> msg])
    /\ pc' = "loop"
    /\ UNCHANGED <<route, req, loopVars, stepVars, res, toolLog>>
    /\ UNCHANGED sideVars

\* anthropic.messages.create rejects: the handler's catch answers 500
ClaudeThrows(msg) ==
    /\ pc = "model"
    /\ modelLog' = SetLast(modelLog, [outcome |-> "throw", message |-> msg])
    /\ res' = Append(res, [status |-> 500,
                  body |-> [error |-> "Failed to process message: " \o msg]])
    /\ pc' = "done"
    /\ UNCHANGED <<route, req, loopVars, stepVars, toolLog>>
    /\ UNCHANGED sideVars

\* the record pushed by the end_turn branch, if any
EndTurnRecords(text) ==
    IF Truthy(Trim(text)) THEN <<[text |-> text]>> ELSE <<>>

\* the model answers with stop_reason end_turn (such a response has no
\* tool_use block)
ClaudeEndTurn(content) ==
    /\ pc = "model"
    /\ CountType(content, "tool_use") = 0
    /\ modelLog' = SetLast(modelLog, [outcome |-> "end_turn", content |-> content])
    /\ response' = [stop_reason |-> "end_turn", content |-> WithIds(content, iterationCount)]
    /\ iterationText' = TextOf(content)
    /\ iterationSql' = ""
    /\ iterationData' = <<>>
    /\ finalResponse' = finalResponse \o TextOf(content)
    /\ iterations' = iterations \o EndTurnRecords(TextOf(content))
    /\ continueLoop' = FALSE
    /\ pc' = "loop"
    /\ UNCHANGED <<route, req, messages, sql, data, iterationCount, blockIdx,
                   toolResults, res, toolLog>>
    /\ UNCHANGED sideVars

\* the model answers with stop_reason tool_use (such a response has at least
\* one tool_use block): the block loop starts
ClaudeToolUse(content) ==
    /\ pc = "model"
    /\ CountType(content, "tool_use") >= 1
    /\ modelLog' = SetLast(modelLog, [outcome |-> "tool_use", content |-> content])
    /\ response' = [stop_reason |-> "tool_use", content |-> WithIds(content, iterationCount)]
    /\ iterationText' = <<>>
    /\ iterationSql' = ""
    /\ iterationData' = <<>>
    /\ toolResults' = <<>>
    /\ blockIdx' = 1
    /\ pc' = "blocks"
    /\ UNCHANGED <<route, req, loopVars, res, toolLog>>
    /\ UNCHANGED sideVars

\* ClaudeOtherStop that leaves continueLoop as it is
ClaudeOtherStopGoesOn(stop, content) ==
    /\ pc = "model"
    /\ stop \notin {"end_turn", "tool_use"}
    /\ modelLog' = SetLast(modelLog, [outcome |-> stop, content |-> content])
    /\ response' = [stop_reason |-> stop, content |-> WithIds(content, iterationCount)]
    /\ iterationText' = <<>>
    /\ iterationSql' = ""
    /\ iterationData' = <<>>
    /\ pc' = "loop"
    /\ UNCHANGED <<route, req, messages, sql, data, finalResponse, iterations,
                   continueLoop, iterationCount, blockIdx, toolResults, res, toolLog>>
    /\ UNCHANGED sideVars

\* the model answers with any other stop_reason; the content may hold text
\* and tool_use blocks
ClaudeOtherStop(stop, content) ==
    /\ pc = "model"
    /\ stop \notin {"end_turn", "tool_use"}
    /\ modelLog' = SetLast(modelLog, [outcome |-> stop, content |-> content])
    /\ response' = [stop_reason |-> stop, content |-> WithIds(content, iterationCount)]
    /\ iterationText' = <<>>
    /\ iterationSql' = ""
    /\ iterationData' = <<>>
    /\ continueLoop' = FALSE
    /\ pc' = "loop"
    /\ UNCHANGED <<route, req, messages, sql, data, finalResponse, iterations,
                   iterationCount, blockIdx, toolResults, res, toolLog>>
    /\ UNCHANGED sideVars

\* a text block of a tool_use response
TextBlock ==
    /\ pc = "blocks"
    /\ blockIdx <= Len(response.content)
    /\ response.content[blockIdx].type = "text"
    /\ iterationText' = iterationText \o response.content[blockIdx].text
    /\ finalResponse' = finalResponse \o response.content[blockIdx].text
    /\ blockIdx' = blockIdx + 1
    /\ UNCHANGED <<pc, route, req, messages, sql, data, iterations, continueLoop,
                   iterationCount, response, iterationSql, iterationData,
                   toolResults, res, modelLog, toolLog>>
    /\ UNCHANGED sideVars

\* StoresSql without the test of the tool name
StoresSqlAnyTool(block) == block.input.query # ""

\* toolName === "query_clickhouse" && toolInput.query
StoresSql(block) == block.name = "query_clickhouse" /\ block.input.query # ""

\* a tool_use block: the SQL is stored and callMcpTool is awaited
ToolUseBlock ==
    /\ pc = "blocks"
    /\ blockIdx <= Len(response.content)
    /\ response.content[blockIdx].type = "tool_use"
    /\ LET block == response.content[blockIdx] IN
       /\ IF StoresSql(block)
          THEN iterationSql' = block.input.query /\ sql' = block.input.query
          ELSE UNCHANGED <<iterationSql, sql>>
       /\ toolLog' = Append(toolLog, [id |-> block.id, name |-> block.name,
                                      query |-> block.input.query, settled |-> FALSE])
    /\ pc' = "tool"
    /\ UNCHANGED <<route, req, messages, data, finalResponse, iterations,
                   continueLoop, iterationCount, response, blockIdx, iterationText,
                   iterationData, toolResults, res, modelLog>>
    /\ UNCHANGED sideVars

\* ToolSettles that sends a failed call to the endpoint once more
ToolSettlesRetry(outcome) ==
    /\ pc = "tool"
    /\ LET block == response.content[blockIdx]
           ret == callMcpTool(outcome)
           eff == ToolCallEffect(ret)
       IN
       /\ IF eff.assigns
          THEN iterationData' = eff.rows /\ data' = eff.rows
          ELSE UNCHANGED <<iterationData, data>>
       /\ toolResults' = Append(toolResults, ToolResultBlock(block, ret))
       /\ toolLog' = SetLast(toolLog, [id |-> block.id, name |-> block.name,
                                       query |-> block.input.query, settled |-> TRUE,
                                       outcome |-> outcome])
       /\ blockIdx' = IF eff.failed THEN blockIdx ELSE blockIdx + 1
    /\ pc' = "blocks"
    /\ UNCHANGED <<route, req, messages, sql, finalResponse, iterations,
                   continueLoop, iterationCount, response, iterationText,
                   iterationSql, res, modelLog>>
    /\ UNCHANGED sideVars

\* callMcpTool settles: the try block or the catch block runs
ToolSettles(outcome) ==
    /\ pc = "tool"
    /\ LET block == response.content[blockIdx]
           ret == callMcpTool(outcome)
           eff == ToolCallEffect(ret)
       IN
       /\ IF eff.assigns
          THEN iterationData' = eff.rows /\ data' = eff.rows
          ELSE UNCHANGED <<iterationData, data>>
       /\ toolResults' = Append(toolResults, ToolResultBlock(block, ret))
       /\ toolLog' = SetLast(toolLog, [id |-> block.id, name |-> block.name,
                                       query |-> block.input.query, settled |-> TRUE,
                                       outcome |-> outcome])
    /\ blockIdx' = blockIdx + 1
    /\ pc' = "blocks"
    /\ UNCHANGED <<route, req, messages, sql, finalResponse, iterations,
                   continueLoop, iterationCount, response, iterationText,
                   iterationSql, res, modelLog>>
    /\ UNCHANGED sideVars

\* ToolUseRecords pushing the text and the query as two records
ToolUseRecordsSplit(text, isql, idata) ==
    IF Truthy(Trim(text)) \/ isql # "" \/ Len(idata) > 0
    THEN IF isql # ""
         THEN <<[text |-> text], [text |-> <<>>, sql |-> isql]>>
         ELSE <<[text |-> text]>>
    ELSE <<>>

\* the record pushed at the end of a tool_use step, if any
ToolUseRecords(text, isql, idata) ==
    IF Truthy(Trim(text)) \/ isql # "" \/ Len(idata) > 0
    THEN IF isql # "" /\ Len(idata) > 0
         THEN <<[text |-> text, sql |-> isql, data |-> idata]>>
         ELSE IF isql # "" THEN <<[text |-> text, sql |-> isql]>>
         ELSE IF Len(idata) > 0 THEN <<[text |-> text, data |-> idata]>>
         ELSE <<[text |-> text]>>
    ELSE <<>>

\* FoldStep that puts the tool results before the response they answer
FoldStepResultsFirst(history, content, results) ==
    history \o <<[role |-> "user", content |-> results],
                 [role |-> "assistant", content |-> content]>>

\* FoldStep that pushes the response without the tool results
FoldStepResponseOnly(history, content, results) ==
    history \o <<[role |-> "assistant", content |-> content]>>

\* messages.push of the response and of toolResults
FoldStep(history, content, results) ==
    history \o <<[role |-> "assistant", content |-> content],
                 [role |-> "user", content |-> results]>>

\* all blocks handled: the iteration is saved and the history extended
SaveIteration ==
    /\ pc = "blocks"
    /\ blockIdx > Len(response.content)
    /\ iterations' = iterations \o ToolUseRecords(iterationText, iterationSql, iterationData)
    /\ messages' = FoldStep(messages, response.content, toolResults)
    /\ pc' = "loop"
    /\ UNCHANGED <<route, req, sql, data, finalResponse, continueLoop,
                   iterationCount, stepVars, res, modelLog, toolLog>>
    /\ UNCHANGED sideVars

\* the loop is left: res.json with the accumulated result
Respond ==
    /\ pc = "loop"
    /\ ~LoopGuard
    /\ res' = Append(res, [status |-> 200,
                  body |-> [response |-> finalResponse, sql |-> sql,
                            data |-> data, iterations |-> iterations]])
    /\ pc' = "done"
    /\ UNCHANGED <<route, req, loopVars, stepVars, modelLog, toolLog>>
    /\ UNCHANGED sideVars

----------------------------------------------------------------------------
(* The streaming handler: POST of the frontend chat route *)

\* the request body: unparsable, or an object whose messages field is
\* absent, an array, or a value of another type
\* (convertible: convertToModelMessages accepts the array)
StreamBodies ==
    { [json |-> FALSE, messages |-> "undefined", convertible |-> FALSE],
      [json |-> TRUE, messages |-> "undefined", convertible |-> FALSE],
      [json |-> TRUE, messages |-> "string", convertible |-> FALSE],
      [json |-> TRUE, messages |-> "array", convertible |-> FALSE],
      [json |-> TRUE, messages |-> "array", convertible |-> TRUE] }

\* !messages || !Array.isArray(messages)
InvalidMessages(body) == body.messages = "undefined" \/ body.messages # "array"

\* StreamError without the details field
StreamErrorNoDetails(status, error, details) ==
    [status |-> status, body |-> [error |-> error]]

\* the JSON error response both branches of the streaming handler build
StreamError(status, error, details) ==
    [status |-> status, body |-> [error |-> error, details |-> details]]

\* the request arrives: the body is parsed and validated, the API key is read
\* and the tool catalog is requested
StreamPost(body, key) ==
    /\ pc = "idle"
    /\ route' = "stream"
    /\ req' = [body |-> body, apiKey |-> key]
    /\ IF ~body.json
       THEN /\ res' = Append(res, StreamError(500, "Internal server error",
                                              "Unexpected end of JSON input"))
            /\ pc' = "done"
       ELSE IF InvalidMessages(body)
       THEN /\ res' = Append(res, StreamError(400, "Invalid request body",
                                              "messages must be an array"))
            /\ pc' = "done"
       ELSE IF ~key
       THEN /\ res' = Append(res, StreamError(500, "Internal server error",
                              "ANTHROPIC_API_KEY environment variable is not set"))
            /\ pc' = "done"
       ELSE IF ~body.convertible
       THEN /\ res' = Append(res, StreamError(500, "Internal server error",
                                              "Unsupported message"))
            /\ pc' = "done"
       ELSE /\ pc' = "list"
            /\ UNCHANGED res
    /\ UNCHANGED <<loopVars, stepVars, modelLog, toolLog>>
    /\ UNCHANGED sideVars


----------------------------------------------------------------------------
(* The query_clickhouse tool of the MCP server *)

(* Program constant: the most rows the tool is to return *)
MaxRowLimit == 100

Min(a, b) == IF a <= b THEN a ELSE b

\* n rows
Rows(n) == [i \in 1..n |-> i]

\* The statements the model submits: the first keyword as written and, when
\* the statement has a LIMIT clause of its own, the number in it.
Queries ==
    { [head |-> "SELECT"],
      [head |-> "SELECT", ownLimit |-> 5],
      [head |-> "select", ownLimit |-> 500],
      [head |-> "SHOW"],
      [head |-> "describe"],
      [head |-> "EXPLAIN"] }

\* the i flag of the regular expressions
UpperCase(word) ==
    IF word = "select" THEN "SELECT"
    ELSE IF word = "describe" THEN "DESCRIBE"
    ELSE word

\* /^\s*(SHOW|DESCRIBE|DESC|EXPLAIN|EXISTS)\b/i.test(finalQuery)
isNonSelectQuery(q) ==
    UpperCase(q.head) \in {"SHOW", "DESCRIBE", "DESC", "EXPLAIN", "EXISTS"}

\* /\bLIMIT\s+\d+/i.test(finalQuery)
hasLimit(q) == "ownLimit" \in DOMAIN q

\* What the database holds for a statement: the rows the statement yields
\* when nothing limits it, and whether executing it fails.
Databases ==
    [rows : {0, 3, MaxRowLimit, MaxRowLimit + 1, MaxRowLimit + 50},
     fails : BOOLEAN]

\* the arguments of a tools/call request, each with its JSON type
LimitValues ==
    { [type |-> "number", value |-> n] : n \in {0, 1, 50, 100, 101, 500} }
    \cup { [type |-> "string", value |-> 10] }

ToolArguments ==
    { [query |-> [type |-> "string", value |-> q]] : q \in Queries }
    \cup { [query |-> [type |-> "string", value |-> q], limit |-> l] :
             q \in Queries, l \in LimitValues }

\* the input schema the tool is registered with: query a string, limit an
\* optional number between 1 and 100
ValidArguments(args) ==
    /\ "query" \in DOMAIN args /\ args.query.type = "string"
    /\ "limit" \in DOMAIN args =>
          /\ args.limit.type = "number"
          /\ args.limit.value >= 1
          /\ args.limit.value <= 100

\* finalQuery: the statement as submitted, wrapped in a subquery with an
\* outer LIMIT, or with a LIMIT appended
FinalQuery(q, limit) ==
    LET enforcedLimit == Min(limit, 100) IN
    IF isNonSelectQuery(q) THEN [query |-> q, outer |-> "none"]
    ELSE IF hasLimit(q) THEN [query |-> q, outer |-> "wrap", limit |-> enforcedLimit]
    ELSE [query |-> q, outer |-> "append", limit |-> enforcedLimit]

\* client.query.execute and result.json(): the rows of the final statement
ExecuteRows(final, db) ==
    LET inner == IF "ownLimit" \in DOMAIN final.query
                 THEN Min(db.rows, final.query.ownLimit) ELSE db.rows
    IN  Rows(IF final.outer = "none" THEN inner ELSE Min(inner, final.limit))

\* the text of a successful result (JSON.stringify(output, null, 2))
OutputText == "{\"rows\":[...],\"rowCount\":...}"

\* The handler of the tool: the final statement it executes and the result
\* it returns, a result with isError when the execution throws.
QueryClickhouse(args, db) ==
    LET limit == IF "limit" \in DOMAIN args THEN args.limit.value ELSE 100
        final == FinalQuery(args.query.value, limit)
    IN  IF db.fails
        THEN [finalQuery |-> final,
              result |-> [content |-> <<[type |-> "text", text |-> QueryErrorText]>>,
                          isError |-> TRUE]]
        ELSE LET rows == ExecuteRows(final, db) IN
             [finalQuery |-> final,
              result |-> [content |-> <<[type |-> "text", text |-> OutputText]>>,
                          structuredContent |->
                              [rows |-> rows, rowCount |-> Len(rows)]]]

\* The endpoint's answer to a tools/call request for query_clickhouse:
\* arguments the input schema rejects never reach the handler.
ToolsCall(args, db) ==
    IF ~ValidArguments(args)
    THEN [ran |-> FALSE,
          outcome |-> [kind |-> "json",
                       body |-> [error |-> [code |-> -32602,
                                            message |-> "Invalid arguments"]]]]
    ELSE LET h == QueryClickhouse(args, db) IN
         [ran |-> TRUE, finalQuery |-> h.finalQuery,
          outcome |-> [kind |-> "json", body |-> [result |-> h.result]]]

----------------------------------------------------------------------------
(* The tool catalog of the streaming handler: descriptors and jsonSchemaToZod *)

\* mcpTool.inputSchema of a descriptor that has none
Undefined == [undefined |-> TRUE]

\* a property entry that is null
NullProperty == [null |-> TRUE]

\* the declarations of a parameter
PropertySchemas ==
    { [type |-> "string"],
      [type |-> "number"],
      [type |-> "number", minimum |-> 1, maximum |-> 100],
      [type |-> "integer", minimum |-> 1],
      [type |-> "integer", maximum |-> 100],
      [type |-> "boolean"],
      [type |-> "array"],
      [type |-> "object"],
      [type |-> "null"],
      [description |-> "no type"] }

\* the descriptor the MCP server publishes for query_clickhouse
QueryClickhouseDescriptor ==
    [name |-> "query_clickhouse",
     inputSchema |->
        [properties |-> [query |-> [type |-> "string"],
                         limit |-> [type |-> "number", minimum |-> 1,
                                    maximum |-> 100]],
         required |-> {"query"}]]

\* ZodType that leaves out the bounds of a number
ZodTypeUnbounded(propSchema) ==
    LET type == IF "type" \in DOMAIN propSchema THEN propSchema.type ELSE "undefined"
    IN  IF type \in {"string", "boolean", "array", "object"} THEN [type |-> type]
        ELSE IF type \in {"number", "integer"} THEN [type |-> "number"]
        ELSE [type |-> "any"]

\* the adapted type of a parameter without its optional marker
ZodType(propSchema) ==
    LET type == IF "type" \in DOMAIN propSchema THEN propSchema.type ELSE "undefined"
    IN  IF type = "string" THEN [type |-> "string"]
        ELSE IF type \in {"number", "integer"}
        THEN IF "minimum" \in DOMAIN propSchema /\ "maximum" \in DOMAIN propSchema
             THEN [type |-> "number", min |-> propSchema.minimum,
                   max |-> propSchema.maximum]
             ELSE IF "minimum" \in DOMAIN propSchema
             THEN [type |-> "number", min |-> propSchema.minimum]
             ELSE IF "maximum" \in DOMAIN propSchema
             THEN [type |-> "number", max |-> propSchema.maximum]
             ELSE [type |-> "number"]
        ELSE IF type = "boolean" THEN [type |-> "boolean"]
        ELSE IF type = "array" THEN [type |-> "array"]
        ELSE IF type = "object" THEN [type |-> "object"]
        ELSE [type |-> "any"]

\* zodType.optional()
Optional(zodType) == [inner |-> zodType, optional |-> TRUE]

\* the adapted parameter when it is required
Required(zodType) == [inner |-> zodType, optional |-> FALSE]

\* jsonSchemaToZod that makes the listed parameters optional
jsonSchemaToZodInverted(schema) ==
    IF "undefined" \in DOMAIN schema
    THEN [status |-> "throw",
          message |-> "Cannot read properties of undefined (reading 'properties')"]
    ELSE LET properties == IF "properties" \in DOMAIN schema
                           THEN schema.properties ELSE <<>>
             required == IF "required" \in DOMAIN schema THEN schema.required ELSE {}
         IN  IF \E key \in DOMAIN properties : "null" \in DOMAIN properties[key]
             THEN [status |-> "throw",
                   message |-> "Cannot read properties of null (reading 'type')"]
             ELSE [status |-> "return",
                   shape |-> [key \in DOMAIN properties |->
                                 IF key \in required
                                 THEN Optional(ZodType(properties[key]))
                                 ELSE Required(ZodType(properties[key]))]]

\* jsonSchemaToZod: the shape of the adapted object type, or the TypeError
\* of reading a property of undefined or null
jsonSchemaToZod(schema) ==
    IF "undefined" \in DOMAIN schema
    THEN [status |-> "throw",
          message |-> "Cannot read properties of undefined (reading 'properties')"]
    ELSE LET properties == IF "properties" \in DOMAIN schema
                           THEN schema.properties ELSE <<>>
             required == IF "required" \in DOMAIN schema THEN schema.required ELSE {}
         IN  IF \E key \in DOMAIN properties : "null" \in DOMAIN properties[key]
             THEN [status |-> "throw",
                   message |-> "Cannot read properties of null (reading 'type')"]
             ELSE [status |-> "return",
                   shape |-> [key \in DOMAIN properties |->
                                 IF key \notin required
                                 THEN Optional(ZodType(properties[key]))
                                 ELSE Required(ZodType(properties[key]))]]

\* a value parses as the adapted type
ParsesAs(zodType, v) ==
    IF zodType.type = "any" THEN TRUE
    ELSE IF zodType.type = "number"
    THEN /\ v.type = "number"
         /\ "min" \in DOMAIN zodType => v.value >= zodType.min
         /\ "max" \in DOMAIN zodType => v.value <= zodType.max
    ELSE v.type = zodType.type

\* the arguments of a tool call parse as the adapted object type
Accepts(shape, args) ==
    \A key \in DOMAIN shape :
        IF key \in DOMAIN args
        THEN ParsesAs(shape[key].inner, args[key])
        ELSE shape[key].optional \/ shape[key].inner.type = "any"

\* mcpTool.inputSchema
InputSchemaOf(mcpTool) ==
    IF "inputSchema" \in DOMAIN mcpTool THEN mcpTool.inputSchema ELSE Undefined

\* createAiSdkToolFromMcp: the tool with its adapted parameters, or the
\* exception of jsonSchemaToZod
createAiSdkToolFromMcp(mcpTool) ==
    LET zodSchema == jsonSchemaToZod(InputSchemaOf(mcpTool)) IN
    IF zodSchema.status = "throw" THEN zodSchema
    ELSE [status |-> "return",
          tool |-> [name |-> mcpTool.name, parameters |-> zodSchema.shape]]

\* Execute that looks at the text before the structured content
ExecuteTextFirst(ret) ==
    IF ret.status = "throw" THEN ret
    ELSE IF "value" \notin DOMAIN ret
    THEN [status |-> "throw", message |-> "Cannot read properties of undefined"]
    ELSE IF FirstText(ret.value) # ""
    THEN LET parsed == JSONParse(FirstText(ret.value)) IN
         IF parsed.kind = "error"
         THEN [status |-> "return", from |-> "text", value |-> FirstText(ret.value)]
         ELSE [status |-> "return", from |-> "json", value |-> parsed]
    ELSE IF "structuredContent" \in DOMAIN ret.value
    THEN [status |-> "return", from |-> "structuredContent",
          value |-> ret.value.structuredContent]
    ELSE [status |-> "return", from |-> "result", value |-> ret.value]

\* execute of an adapted tool, after callMcpTool: the value handed to the
\* model, or the exception
Execute(ret) ==
    IF ret.status = "throw" THEN ret
    ELSE IF "value" \notin DOMAIN ret
    THEN [status |-> "throw", message |-> "Cannot read properties of undefined"]
    ELSE IF "structuredContent" \in DOMAIN ret.value
    THEN [status |-> "return", from |-> "structuredContent",
          value |-> ret.value.structuredContent]
    ELSE IF FirstText(ret.value) # ""
    THEN LET parsed == JSONParse(FirstText(ret.value)) IN
         IF parsed.kind = "error"
         THEN [status |-> "return", from |-> "text", value |-> FirstText(ret.value)]
         ELSE [status |-> "return", from |-> "json", value |-> parsed]
    ELSE [status |-> "return", from |-> "result", value |-> ret.value]

----------------------------------------------------------------------------
(* The streaming handler: the tool catalog and the steps of the run *)

\* tool descriptors in one answer to tools/list
MaxCatalog == 2

\* steps with tool calls in one streaming run that are not the plain step
MaxVariedSteps == 1

(* Program constant: stopWhen: stepCountIs(25) *)
StepCap == 25

\* descriptors the endpoint may list: two well-formed ones, one without an
\* input schema, one with a null property entry
Descriptors ==
    { QueryClickhouseDescriptor,
      [name |-> "describe_table",
       inputSchema |-> [properties |-> [table |-> [type |-> "string"]]]],
      [name |-> "no_schema"],
      [name |-> "null_property",
       inputSchema |-> [properties |-> [p |-> NullProperty]]] }

\* the sequences without repetition of at most n descriptors
RECURSIVE CatalogsUpTo(_)
CatalogsUpTo(n) ==
    IF n = 0 THEN {<<>>}
    ELSE LET shorter == CatalogsUpTo(n - 1) IN
         shorter \cup { Append(c, d) : c \in shorter,
                                      d \in Descriptors } 

Catalogs ==
    { c \in CatalogsUpTo(MaxCatalog) :
        \A i, j \in 1..Len(c) : i # j => c[i] # c[j] }

\* what fetch and response.json() produce for the tools/list request
ListOutcomes ==
    { [kind |-> "reject", message |-> "fetch failed"],
      [kind |-> "json", body |-> [error |-> [message |-> "Method not found"]]],
      [kind |-> "json", body |-> [null |-> TRUE]],
      [kind |-> "json", body |-> [jsonrpc |-> "2.0"]],
      [kind |-> "json", body |-> [result |-> [nextCursor |-> "c"]]] }
    \cup { [kind |-> "json", body |-> [result |-> [tools |-> c]]] : c \in Catalogs }

\* the body of the try block of listMcpTools
ListAttempt(outcome) ==
    IF outcome.kind = "reject"
    THEN [status |-> "throw", message |-> outcome.message]
    ELSE IF "null" \in DOMAIN outcome.body
    THEN [status |-> "throw", message |-> "Cannot read properties of null"]
    ELSE IF "error" \in DOMAIN outcome.body
    THEN [status |-> "return", value |-> <<>>]
    ELSE IF "result" \in DOMAIN outcome.body /\ "tools" \in DOMAIN outcome.body.result
    THEN [status |-> "return", value |-> outcome.body.result.tools]
    ELSE [status |-> "return", value |-> <<>>]

\* listMcpTools without its catch block
listMcpToolsRethrows(outcome) == ListAttempt(outcome)

\* listMcpTools: the catch block returns the empty sequence
listMcpTools(outcome) ==
    LET attempt == ListAttempt(outcome) IN
    IF attempt.status = "throw" THEN [status |-> "return", value |-> <<>>]
    ELSE attempt

\* the loop that fills tools: a later descriptor of the same name replaces
\* an earlier one, an exception of createAiSdkToolFromMcp ends the loop
RECURSIVE BuildTools(_, _)
BuildTools(mcpTools, built) ==
    IF mcpTools = <<>> THEN [status |-> "return", tools |-> built]
    ELSE LET made == createAiSdkToolFromMcp(Head(mcpTools)) IN
         IF made.status = "throw" THEN made
         ELSE BuildTools(Tail(mcpTools),
                         (Head(mcpTools).name :> made.tool) @@ built)

\* the 200 response that carries the stream
StreamResponse == [status |-> 200, body |-> [stream |-> "ui-message-stream"]]

\* listMcpTools settles: the catalog is built and the stream response is
\* returned with the run started, or the handler's catch answers 500
ListToolsSettles(outcome) ==
    /\ pc = "list"
    /\ LET listed == listMcpTools(outcome)
           built == IF listed.status = "throw" THEN listed
                    ELSE BuildTools(listed.value, <<>>)
       IN  /\ listLog' = Append(listLog, [outcome |-> outcome, listed |-> listed])
           /\ IF built.status = "throw"
              THEN /\ res' = Append(res, StreamError(500, "Internal server error",
                                                     built.message))
                   /\ UNCHANGED <<tools, run, stepStartTime, stepCount>>
              ELSE /\ res' = Append(res, StreamResponse)
                   /\ tools' = [built |-> TRUE, catalog |-> built.tools]
                   /\ run' = "steps"
                   /\ stepStartTime' = clock
                   /\ stepCount' = 0
    /\ pc' = "done"
    /\ UNCHANGED <<route, req, loopVars, stepVars, modelLog, toolLog>>
    /\ UNCHANGED <<health, clock, events, stepLog, toolCall, sessions,
                   sidebar>>

----------------------------------------------------------------------------
Next ==
    \/ \E m \in MessageValues, key \in BOOLEAN : SendMessage(m, key)
    \/ \E body \in StreamBodies, key \in BOOLEAN : StreamPost(body, key)
    \/ \E outcome \in ListOutcomes : ListToolsSettles(outcome)
    \/ CallClaude
    \/ \E msg \in {"overloaded"} : ClaudeThrows(msg)
    \/ \E content \in AffordableContents : ClaudeEndTurn(content)
    \/ \E content \in AffordableContents : ClaudeToolUse(content)
    \/ \E stop \in StopReasons, content \in AffordableContents :
          ClaudeOtherStop(stop, content)
    \/ TextBlock
    \/ ToolUseBlock
    \/ \E outcome \in AffordableOutcomes : ToolSettles(outcome)
    \/ SaveIteration
    \/ Respond

Spec == Init /\ [][Next]_vars

----------------------------------------------------------------------------
(* The streaming run and GET /health *)

\* the tool of the plain step
PlainTool == "query_clickhouse"

\* the tool calls of one step: none, a call of a tool of the catalog, or
\* two calls, the first of query_clickhouse when the catalog has it
StepCalls ==
    LET names == IF tools.built THEN DOMAIN tools.catalog ELSE {}
        firsts == IF PlainTool \in names THEN {PlainTool} ELSE names
    IN  {<<>>} \cup { <<n>> : n \in names }
        \cup { <<n, m>> : n \in firsts, m \in names }

\* the plain step: one call of query_clickhouse, completed after 1 ms
PlainStep(names, elapsed) == names = <<PlainTool>> /\ elapsed = 1

\* the completed steps with tool calls that were not plain steps
VariedSteps ==
    Cardinality({ k \in 1..Len(stepLog) :
        /\ stepLog[k].toolCalls # <<>>
        /\ ~(/\ Len(stepLog[k].toolCalls) = 1
             /\ stepLog[k].toolCalls[1].toolName = PlainTool
             /\ stepLog[k].finished - stepLog[k].started = 1) })

\* the tool calls of a step that calls the named tools
ToolCallsOf(names, stepNumber) ==
    [i \in 1..Len(names) |-> [toolCallId |-> <<stepNumber, i>>, toolName |-> names[i]]]

\* TimingEvents that numbers the steps from 0
TimingEventsFromZero(toolCalls, stepDuration, stepNumber) ==
    [i \in 1..Len(toolCalls) |->
        [type |-> "data-tool-timing",
         data |-> [toolCallId |-> toolCalls[i].toolCallId, duration |-> stepDuration,
                   stepNumber |-> stepNumber - 1, toolName |-> toolCalls[i].toolName]]]

\* the data-tool-timing events onStepFinish writes for a step
TimingEvents(toolCalls, stepDuration, stepNumber) ==
    [i \in 1..Len(toolCalls) |->
        [type |-> "data-tool-timing",
         data |-> [toolCallId |-> toolCalls[i].toolCallId, duration |-> stepDuration,
                   stepNumber |-> stepNumber, toolName |-> toolCalls[i].toolName]]]

\* onStepFinish: a step of the run completes after elapsed milliseconds with
\* calls of the named tools; the run ends with a step without tool calls or
\* with the 25th step
StepFinish(names, elapsed) ==
    /\ run = "steps"
    /\ (names # <<>> /\ ~PlainStep(names, elapsed)) => VariedSteps < MaxVariedSteps
    /\ names = <<>> => elapsed = 1
    /\ clock' = clock + elapsed
    /\ stepCount' = stepCount + 1
    /\ LET toolCalls == ToolCallsOf(names, Len(stepLog) + 1) IN
       /\ events' = events \o TimingEvents(toolCalls, clock' - stepStartTime,
                                           stepCount')
       /\ stepLog' = Append(stepLog, [toolCalls |-> toolCalls, started |-> clock,
                                      finished |-> clock'])
    /\ stepStartTime' = clock'
    /\ run' = IF names = <<>> \/ stepCount' = StepCap THEN "finished" ELSE "steps"
    /\ UNCHANGED <<pc, route, req, loopVars, stepVars, res, modelLog, toolLog>>
    /\ UNCHANGED <<health, listLog, tools, toolCall, sessions,
                   sidebar>>

\* GET /health that always reports the key as configured
GetHealthAlwaysConfigured(key) ==
    /\ pc \in {"done", "model"}
    /\ run = "none"
    /\ health = <<>>
    /\ health' = <<[status |-> 200,
                    body |-> [status |-> "ok",
                              mcp_server |-> "http://localhost:4000/tools",
                              api_key_configured |-> TRUE]]>>
    /\ UNCHANGED <<pc, route, req, loopVars, stepVars, res, modelLog, toolLog>>
    /\ UNCHANGED <<streamVars, toolCall, sessions,
                   sidebar>>

\* GET /health, asked once a chat request has been answered without a
\* stream or has reached the model, in the environment the request was
\* served in
GetHealth(key) ==
    /\ pc \in {"done", "model"}
    /\ run = "none"
    /\ health = <<>>
    /\ health' = <<[status |-> 200,
                    body |-> [status |-> "ok",
                              mcp_server |-> "http://localhost:4000/tools",
                              api_key_configured |-> key]]>>
    /\ UNCHANGED <<pc, route, req, loopVars, stepVars, res, modelLog, toolLog>>
    /\ UNCHANGED <<streamVars, toolCall, sessions,
                   sidebar>>

\* The streaming handler with its run, the entry of POST /sendMessage up to
\* the first model invocation, and GET /health
StreamNext ==
    \/ \E m \in MessageValues, key \in BOOLEAN : SendMessage(m, key)
    \/ CallClaude
    \/ \E body \in StreamBodies, key \in BOOLEAN : StreamPost(body, key)
    \/ \E outcome \in ListOutcomes : ListToolsSettles(outcome)
    \/ \E names \in StepCalls, elapsed \in {1, 2} : StepFinish(names, elapsed)
    \/ GetHealth(req.apiKey)

StreamSpec == Init /\ [][StreamNext]_vars

----------------------------------------------------------------------------
(* One tool call from the arguments of the model to the rows handed back, *)
(* through the gateway of either loop and the query_clickhouse tool       *)

\* how the transport of a tools/call request ends
Transports == {"ok", "reject", "malformed"}

\* what fetch and response.json() produce for the request
Answer(args, db, net) ==
    IF net = "reject" THEN [kind |-> "reject", message |-> "fetch failed"]
    ELSE IF net = "malformed" THEN [kind |-> "reject", message |-> "Unexpected token"]
    ELSE ToolsCall(args, db).outcome

\* descriptors of a tool with one parameter, declared in each way and
\* required or not, of a tool whose schema declares no properties, of
\* query_clickhouse and the malformed ones
ParameterDescriptors ==
    { [name |-> "tool",
       inputSchema |-> [properties |-> [p |-> ps], required |-> {"p"}]] :
         ps \in PropertySchemas }
    \cup { [name |-> "tool", inputSchema |-> [properties |-> [p |-> ps]]] :
             ps \in PropertySchemas }
    \cup { [name |-> "tool", inputSchema |-> [type |-> "object"]] }
    \cup Descriptors

\* the catalog is built from the descriptors that listMcpTools returned
AdaptCatalog(mcpTools) ==
    /\ pc = "idle"
    /\ ~tools.built
    /\ toolCall.variant = "none"
    /\ LET built == BuildTools(mcpTools, <<>>) IN
       tools' = IF built.status = "throw"
                THEN [built |-> FALSE, from |-> mcpTools, message |-> built.message]
                ELSE [built |-> TRUE, from |-> mcpTools, catalog |-> built.tools]
    /\ UNCHANGED <<pc, route, req, loopVars, stepVars, res, modelLog, toolLog>>
    /\ UNCHANGED <<health, listLog, stepCount, stepStartTime, clock, events, run,
                   stepLog, toolCall, sessions,
                   sidebar>>

\* the tool_use branch of POST /sendMessage for one block: the input goes
\* to callMcpTool as the model gave it
BackendToolCall(args, db, net) ==
    /\ pc = "idle"
    /\ ~tools.built
    /\ toolCall.variant = "none"
    /\ LET ret == callMcpTool(Answer(args, db, net)) IN
       toolCall' = [variant |-> "backend", arguments |-> args, db |-> db,
                    net |-> net, sent |-> TRUE, ret |-> ret,
                    effect |-> ToolCallEffect(ret)]
    /\ UNCHANGED <<pc, route, req, loopVars, stepVars, res, modelLog, toolLog>>
    /\ UNCHANGED <<health, streamVars, sessions, sidebar>>

\* a call of query_clickhouse in the streaming run: the input is parsed as
\* the adapted parameters of the tool, then execute calls callMcpTool
FrontendToolCall(args, db, net) ==
    /\ pc = "idle"
    /\ tools.built
    /\ PlainTool \in DOMAIN tools.catalog
    /\ toolCall.variant = "none"
    /\ IF ~Accepts(tools.catalog[PlainTool].parameters, args)
       THEN toolCall' = [variant |-> "frontend", arguments |-> args, db |-> db,
                         net |-> net, sent |-> FALSE,
                         output |-> [status |-> "throw",
                                     message |-> "Invalid input for tool"]]
       ELSE LET ret == callMcpTool(Answer(args, db, net)) IN
            toolCall' = [variant |-> "frontend", arguments |-> args, db |-> db,
                         net |-> net, sent |-> TRUE, ret |-> ret,
                         output |-> Execute(ret)]
    /\ UNCHANGED <<pc, route, req, loopVars, stepVars, res, modelLog, toolLog>>
    /\ UNCHANGED <<health, streamVars, sessions, sidebar>>

ToolNext ==
    \/ \E d \in ParameterDescriptors : AdaptCatalog(<<d>>)
    \/ \E args \in ToolArguments, db \in Databases, net \in Transports :
          BackendToolCall(args, db, net)
    \/ \E args \in ToolArguments, db \in Databases, net \in Transports :
          FrontendToolCall(args, db, net)

ToolSpec == Init /\ [][ToolNext]_vars

----------------------------------------------------------------------------
(* Two chat requests served concurrently *)

\* what the model and the tool endpoint answer in one iteration of POST
\* /sendMessage: the stop reason, the text and, for tool_use, the query of
\* the call and the rows of its result
EndTurnAnswer == [stop_reason |-> "end_turn", text |-> <<"a">>]
ToolUseAnswer ==
    [stop_reason |-> "tool_use", text |-> <<"b">>, query |-> "SELECT 1",
     rows |-> <<"r1">>]
BareToolUseAnswer ==
    [stop_reason |-> "tool_use", text |-> <<>>, query |-> "SELECT 2", rows |-> <<>>]

\* the answers a request gets, in order: for POST /sendMessage one per
\* iteration, for the streaming handler the tools called in each step
BackendScripts ==
    { <<EndTurnAnswer>>,
      <<ToolUseAnswer, EndTurnAnswer>>,
      <<BareToolUseAnswer, ToolUseAnswer, EndTurnAnswer>>,
      <<ToolUseAnswer, [stop_reason |-> "max_tokens", text |-> <<"a">>]>> }

StreamScripts ==
    { <<<<>>>>,
      <<<<PlainTool>>, <<>>>>,
      <<<<PlainTool, PlainTool>>, <<PlainTool>>, <<>>>> }

\* the variables a handler invocation declares, as the request finds them
Fresh(kind, script, now) ==
    IF kind = "backend"
    THEN [kind |-> kind, script |-> script, at |-> "model",
          messages |-> <<[role |-> "user", content |-> "message"]>>,
          sql |-> "", data |-> <<>>, finalResponse |-> <<>>, iterations |-> <<>>,
          continueLoop |-> TRUE, iterationCount |-> 0,
          pending |-> EndTurnAnswer]
    ELSE [kind |-> kind, script |-> script, at |-> "step",
          stepStartTime |-> now, stepCount |-> 0, events |-> <<>>]

\* anthropic.messages.create resolves in the invocation with these variables
ModelResolves(l) ==
    LET a == l.script[l.iterationCount + 1] IN
    IF a.stop_reason = "end_turn"
    THEN [l EXCEPT !.iterationCount = @ + 1,
                   !.finalResponse = @ \o a.text,
                   !.iterations = @ \o EndTurnRecords(a.text),
                   !.continueLoop = FALSE,
                   !.at = "done"]
    ELSE IF a.stop_reason = "tool_use"
    THEN [l EXCEPT !.iterationCount = @ + 1,
                   !.finalResponse = @ \o a.text,
                   !.sql = IF a.query # "" THEN a.query ELSE @,
                   !.pending = a,
                   !.at = "tool"]
    ELSE [l EXCEPT !.iterationCount = @ + 1,
                   !.continueLoop = FALSE,
                   !.at = "done"]

\* callMcpTool resolves in the invocation with these variables
ToolResolves(l) ==
    LET a == l.pending IN
    [l EXCEPT !.data = a.rows,
              !.iterations = @ \o ToolUseRecords(a.text, a.query, a.rows),
              !.messages = @ \o <<[role |-> "assistant", content |-> a.query],
                                  [role |-> "user", content |-> a.rows]>>,
              !.at = IF l.iterationCount < maxIterations THEN "model" ELSE "done"]

\* onStepFinish runs in the invocation with these variables
StepResolves(l, now) ==
    LET names == l.script[l.stepCount + 1] IN
    [l EXCEPT !.stepCount = @ + 1,
              !.events = @ \o TimingEvents(ToolCallsOf(names, l.stepCount + 1),
                                           now - l.stepStartTime, l.stepCount + 1),
              !.stepStartTime = now,
              !.at = IF names = <<>> \/ l.stepCount + 1 = StepCap
                     THEN "done" ELSE "step"]

\* the next awaited call of an invocation resolves at time now
Advance(l, now) ==
    IF l.at = "model" THEN ModelResolves(l)
    ELSE IF l.at = "tool" THEN ToolResolves(l)
    ELSE StepResolves(l, now)

\* one set of variables for every invocation, as if declared at module level
ScopeShared(r) == 1

\* where the variables of the invocation that serves request r live: they
\* are declared inside the handler, so each invocation has its own
Scope(r) == r

\* request r arrives
Arrive(r, kind, script) ==
    /\ sessions[r].local.at = "idle"
    /\ sessions' = [sessions EXCEPT
                      ![r].given = [kind |-> kind, script |-> script],
                      ![Scope(r)].local = Fresh(kind, script, clock)]
    /\ UNCHANGED <<pc, route, req, loopVars, stepVars, res, modelLog, toolLog>>
    /\ UNCHANGED <<health, streamVars, toolCall, sidebar>>

\* the call that the invocation serving request r awaits resolves
Proceed(r) ==
    /\ sessions[r].given.kind # "none"
    /\ sessions[Scope(r)].local.at \notin {"idle", "done"}
    /\ clock' = clock + 1
    /\ sessions' = [sessions EXCEPT
                      ![r].taken = @ + 1,
                      ![Scope(r)].local = Advance(sessions[Scope(r)].local, clock')]
    /\ UNCHANGED <<pc, route, req, loopVars, stepVars, res, modelLog, toolLog>>
    /\ UNCHANGED <<health, listLog, tools, stepCount, stepStartTime, events, run,
                   stepLog, toolCall, sidebar>>

ConcurrentNext ==
    \/ \E r \in Requests, script \in BackendScripts : Arrive(r, "backend", script)
    \/ \E r \in Requests, script \in StreamScripts : Arrive(r, "stream", script)
    \/ \E r \in Requests : Proceed(r)

ConcurrentSpec == Init /\ [][ConcurrentNext]_vars

----------------------------------------------------------------------------
(* Vocabulary of the properties *)

Last(seq) == seq[Len(seq)]

IsPrefix(p, q) == Len(p) <= Len(q) /\ SubSeq(q, 1, Len(p)) = p

\* a message the backend handler must reject
RejectedMessage(m) == m.type # "string" \/ m.value = <<>>

\* the backend handler got a valid message and a credential: the loop ran
LoopStarted == route = "backend" /\ ~RejectedMessage(req.message) /\ req.apiKey

\* the backend handler answered with a success response
Succeeded == pc = "done" /\ route = "backend" /\ Len(res) = 1 /\ res[1].status = 200

AllToolUse == \A i \in 1..Len(modelLog) : modelLog[i].outcome = "tool_use"

RECURSIVE AllText(_)
\* every text block the model emitted in the run, concatenated in order
AllText(log) ==
    IF log = <<>> THEN <<>>
    ELSE (IF Head(log).outcome \in StopReasons THEN TextOf(Head(log).content) ELSE <<>>)
         \o AllText(Tail(log))

RECURSIVE ConcatTexts(_)
\* the text fields of a sequence of iteration records, concatenated in order
ConcatTexts(records) ==
    IF records = <<>> THEN <<>>
    ELSE Head(records).text \o ConcatTexts(Tail(records))

\* a logged tool call that failed: the transport threw or the endpoint
\* answered with an error envelope
FailedCall(e) ==
    e.settled /\ (e.outcome.kind = "reject" \/ "error" \in DOMAIN e.outcome.body)

\* the logged tool calls of loop iteration k
CallsOf(k) == SelectSeq(toolLog, LAMBDA e : e.id[1] = k)

\* the rows a tool answer carries: those of its structured content, else
\* those of the JSON in its first text block
RowsCarried(outcome) ==
    IF outcome.kind # "json" \/ "result" \notin DOMAIN outcome.body
    THEN [has |-> FALSE, rows |-> <<>>]
    ELSE LET r == outcome.body.result IN
         IF "structuredContent" \in DOMAIN r
         THEN [has |-> TRUE,
               rows |-> IF "rows" \in DOMAIN r.structuredContent
                        THEN r.structuredContent.rows ELSE <<>>]
         ELSE IF FirstText(r) \in {RowsJson, NoRowsJson}
         THEN [has |-> TRUE, rows |-> IF FirstText(r) = RowsJson THEN <<"r2">> ELSE <<>>]
         ELSE [has |-> FALSE, rows |-> <<>>]

RECURSIVE LastRows(_)
\* the rows of the most recent answer in a log that carries rows
LastRows(log) ==
    IF log = <<>> THEN <<>>
    ELSE IF Last(log).settled /\ RowsCarried(Last(log).outcome).has
    THEN RowsCarried(Last(log).outcome).rows
    ELSE LastRows(SubSeq(log, 1, Len(log) - 1))

RECURSIVE LastStoredQuery(_)
\* the query of the most recent query_clickhouse call with a non-empty query
LastStoredQuery(log) ==
    IF log = <<>> THEN ""
    ELSE IF Last(log).name = "query_clickhouse" /\ Last(log).query # ""
    THEN Last(log).query
    ELSE LastStoredQuery(SubSeq(log, 1, Len(log) - 1))

RECURSIVE LastReceivedRows(_)
\* the rows of the most recent answer in a log that was a result payload
LastReceivedRows(log) ==
    IF log = <<>> THEN <<>>
    ELSE IF Last(log).settled /\ Last(log).outcome.kind = "json"
            /\ "result" \in DOMAIN Last(log).outcome.body
    THEN RowsCarried(Last(log).outcome).rows
    ELSE LastReceivedRows(SubSeq(log, 1, Len(log) - 1))

----------------------------------------------------------------------------
(* Properties *)

\* C1: at most 5 model invocations are made per request, the count advancing
\* once per invocation; when every invocation is answered with tool_use the
\* run makes exactly 5 and ends with the success response that carries the
\* accumulated text, sql, data and iteration records.
C1_IterationCap ==
    /\ modelCalls <= 5
    /\ iterationCount = modelCalls
    /\ (pc = "done" /\ LoopStarted /\ AllToolUse) =>
          /\ modelCalls = 5
          /\ res = <<[status |-> 200,
                      body |-> [response |-> AllText(modelLog), sql |-> sql,
                                data |-> data, iterations |-> iterations]]>>

C1_Witness ==
    /\ pc = "done" /\ LoopStarted /\ AllToolUse
    /\ modelCalls = 5
    /\ Len(toolLog) > 5
    /\ res[1].status = 200

C10_RecordsAppendOnly ==
    /\ [](Len(iterations) <= modelCalls)
    /\ [](Succeeded => res[1].body.iterations = iterations)
    /\ [][/\ IsPrefix(iterations, iterations')
          /\ Len(iterations') <= Len(iterations) + 1
          /\ Len(iterations') > Len(iterations) =>
                (pc \in {"model", "blocks"} /\ pc' = "loop")]_vars

C10_Witness ==
    /\ Succeeded
    /\ Len(iterations) >= 3
    /\ Len(iterations) < modelCalls

\* the model emitted text in some invocation of the run
ModelGaveText == AllText(modelLog) # <<>>

\* C2 (as claimed): on a success response, if the model responded with any
\* text there is at least one iteration record, and the texts of the records
\* concatenated in order equal the response field.
C2_RecordsSpellResponse ==
    (Succeeded /\ ModelGaveText) =>
        /\ Len(res[1].body.iterations) >= 1
        /\ ConcatTexts(res[1].body.iterations) = res[1].body.response

\* the tool_use step that is ending had a failed tool call
StepFailed == \E i \in 1..Len(CallsOf(iterationCount)) :
                  FailedCall(CallsOf(iterationCount)[i])

\* the text the model emitted in the current iteration
StepText == TextOf(Last(modelLog).content)

\* the current tool_use step has something to record: text that is not only
\* white space, a non-empty query_clickhouse query, or rows
RecordDue ==
    \/ Truthy(Trim(StepText))
    \/ LastStoredQuery(CallsOf(iterationCount)) # ""
    \/ LastRows(CallsOf(iterationCount)) # <<>>

\* a failed tool call settles: an error-flagged result for that call is
\* pushed and the block loop goes on, with no response sent
FailureBecomesResult ==
    (pc = "tool" /\ pc' # "tool" /\ FailedCall(Last(toolLog'))) =>
        /\ pc' = "blocks"
        /\ res' = <<>>
        /\ Len(toolResults') = Len(toolResults) + 1
        /\ "is_error" \in DOMAIN Last(toolResults')
        /\ Last(toolResults').is_error
        /\ Last(toolResults').tool_use_id = Last(toolLog').id

\* a step with a failed call ends: the loop goes on to its guard
StepGoesOn ==
    /\ continueLoop'
    /\ res' = <<>>
    /\ Len(messages') = Len(messages) + 2

\* C3 (as claimed): a failed tool call becomes an error-flagged tool result,
\* the step still appends its iteration record with the step's text, no
\* error response is produced and the loop goes on.
C3_FailedCallRecorded ==
    [][/\ FailureBecomesResult
       /\ (pc = "blocks" /\ pc' = "loop" /\ StepFailed) =>
            /\ StepGoesOn
            /\ Len(iterations') = Len(iterations) + 1
            /\ Last(iterations').text = StepText]_vars

\* C3 (amended): as C3, but the step's record is appended exactly when the
\* step produced text that is not only white space, or a non-empty
\* query_clickhouse query, or its most recent tool result that carried rows
\* carried at least one; otherwise no record is appended.
C3_FailedCallRecordedWhenDue ==
    [][/\ FailureBecomesResult
       /\ (pc = "blocks" /\ pc' = "loop" /\ StepFailed) =>
            /\ StepGoesOn
            /\ RecordDue =>
                  /\ Len(iterations') = Len(iterations) + 1
                  /\ Last(iterations').text = StepText
            /\ ~RecordDue => iterations' = iterations]_vars

C3_Witness ==
    /\ pc = "model"
    /\ modelCalls >= 2
    /\ \E i \in 1..Len(CallsOf(iterationCount - 1)) :
          FailedCall(CallsOf(iterationCount - 1)[i])
    /\ iterations # <<>>
    /\ Last(iterations).text = TextOf(modelLog[iterationCount - 1].content)
    /\ Truthy(Trim(Last(iterations).text))
    /\ "is_error" \in DOMAIN Last(toolResults)

\* the backend handler finished a request whose message had to be rejected
RejectedDone == pc = "done" /\ route = "backend" /\ RejectedMessage(req.message)

WellFormedResult(r) ==
    /\ r.status = 200
    /\ route = "backend" => DOMAIN r.body = {"response", "sql", "data", "iterations"}
    /\ route = "stream" => DOMAIN r.body = {"stream"}

\* exactly one response is sent, when the handler finishes
OneResponse == IF pc = "done" THEN Len(res) = 1 ELSE res = <<>>

C7_ResponseIsAllText ==
    Succeeded => res[1].body.response = AllText(modelLog)

\* C8 (as claimed): on success sql is the query input of the most recently
\* executed tool call ("" if none) and data the rows of the most recently
\* received tool result (empty if none).
C8_LastCallAndResult ==
    Succeeded =>
        /\ res[1].body.sql = (IF toolLog = <<>> THEN "" ELSE Last(toolLog).query)
        /\ res[1].body.data = LastReceivedRows(toolLog)

\* C8 (amended): on success sql is the query of the most recent
\* query_clickhouse call that had a non-empty query ("" if none) and data
\* the rows of the most recent tool result that carried structured content
\* or JSON text (empty if none).
C8_LastStoredQueryAndRows ==
    Succeeded =>
        /\ res[1].body.sql = LastStoredQuery(toolLog)
        /\ res[1].body.data = LastRows(toolLog)

C8_Witness ==
    /\ Succeeded
    /\ Len(toolLog) >= 2
    /\ Last(toolLog).query # res[1].body.sql
    /\ res[1].body.sql # ""
    /\ ~RowsCarried(Last(toolLog).outcome).has
    /\ res[1].body.data # <<>>

\* a loop iteration ends
IterationEnds == pc \in {"model", "blocks"} /\ pc' = "loop"

\* C9 (as claimed): an iteration appends a record if and only if it produced
\* non-empty text, a non-empty tool-input string or a non-empty row sequence.
C9_RecordIffOutput ==
    [][IterationEnds =>
          /\ (Len(iterations') = Len(iterations) + 1)
                <=> \/ TextOf(Last(modelLog').content) # <<>>
                    \/ iterationSql' # ""
                    \/ iterationData' # <<>>
          /\ IsPrefix(iterations, iterations')]_vars

----------------------------------------------------------------------------
(* The row cap of the query_clickhouse tool *)

\* the handler of query_clickhouse ran for the traced call and returned rows
ToolReturnedRows ==
    /\ toolCall.variant # "none"
    /\ toolCall.sent
    /\ toolCall.net = "ok"
    /\ ToolsCall(toolCall.arguments, toolCall.db).ran
    /\ ~toolCall.db.fails

\* the rows in the result the tool returned for the traced call
ReturnedRows ==
    QueryClickhouse(toolCall.arguments, toolCall.db).result.structuredContent.rows

\* C11: for every query the query_clickhouse tool executes, whatever the
\* kind of statement and whatever the limit argument, the result has at most
\* 100 rows and the executed statement carries an outer LIMIT of
\* min(limit, 100), 100 when no limit is given, also when the submitted
\* query has a LIMIT clause of its own.
C11_AtMostHundredRows ==
    ToolReturnedRows =>
        LET args == toolCall.arguments
            final == QueryClickhouse(args, toolCall.db).finalQuery
        IN  /\ Len(ReturnedRows) <= MaxRowLimit
            /\ final.outer # "none"
            /\ final.limit = Min(IF "limit" \in DOMAIN args
                                 THEN args.limit.value ELSE 100, 100)

\* the rows the gateway hands to the loop for the traced call: the rows
\* assigned to iterationData and data, or the rows of the value execute returns
SurfacedRows ==
    IF toolCall.variant = "backend" THEN toolCall.effect.rows
    ELSE toolCall.output.value.rows

\* C12: if the tool endpoint returns more than 100 rows for a query, the
\* gateway surfaces exactly 100 rows to the loop, whatever limit the model
\* chose.
C12_GatewayCapsRows ==
    (ToolReturnedRows /\ Len(ReturnedRows) > MaxRowLimit) =>
        Len(SurfacedRows) = MaxRowLimit

----------------------------------------------------------------------------
(* The tool catalog of the streaming run *)

\* the tools/list request failed in transport or was answered with an error
ListFailed(outcome) ==
    \/ outcome.kind = "reject"
    \/ outcome.kind = "json" /\ "error" \in DOMAIN outcome.body

\* C13: listMcpTools never throws; on a transport failure or an
\* error-shaped response it returns the empty sequence, and the streaming
\* run then proceeds with an empty tool catalog, in which the model can only
\* produce text, instead of failing the request.
C13_ListFailureIsNotFatal ==
    \A i \in 1..Len(listLog) :
        /\ listLog[i].listed.status = "return"
        /\ ListFailed(listLog[i].outcome) =>
              /\ listLog[i].listed.value = <<>>
              /\ res = <<StreamResponse>>
              /\ tools.built /\ DOMAIN tools.catalog = {}
              /\ run \in {"steps", "finished"}
              /\ events = <<>>
              /\ run = "finished" => stepCount = 1

C13_Witness ==
    /\ Len(listLog) = 1
    /\ listLog[1].outcome.kind = "reject"
    /\ res = <<StreamResponse>>
    /\ run = "finished"
    /\ stepCount = 1

----------------------------------------------------------------------------
(* Errors of a tool call *)

\* the answer to the traced call reports an error: the transport failed,
\* the response is an error envelope, or the result is flagged isError
EndpointReportsError ==
    LET answer == Answer(toolCall.arguments, toolCall.db, toolCall.net) IN
    \/ answer.kind = "reject"
    \/ "error" \in DOMAIN answer.body
    \/ "result" \in DOMAIN answer.body /\ "isError" \in DOMAIN answer.body.result

\* C14: callMcpTool throws whenever the endpoint's response encodes an error
\* or the transport call throws, and returns the result payload otherwise;
\* an error reported by the tool endpoint is never handed to the caller as a
\* successful result.
C14_EndpointErrorsThrow ==
    (toolCall.variant # "none" /\ toolCall.sent) =>
        /\ EndpointReportsError <=> toolCall.ret.status = "throw"
        /\ toolCall.ret.status = "return" =>
              toolCall.ret.value =
                  Answer(toolCall.arguments, toolCall.db, toolCall.net).body.result

----------------------------------------------------------------------------
(* Bounds of numeric tool arguments *)

\* the traced call carries a limit outside the declared bounds 1..100
LimitOutOfBounds ==
    /\ toolCall.variant # "none"
    /\ "limit" \in DOMAIN toolCall.arguments
    /\ toolCall.arguments.limit.type = "number"
    /\ \/ toolCall.arguments.limit.value < 1
       \/ toolCall.arguments.limit.value > 100

----------------------------------------------------------------------------
(* Malformed descriptors and the adapted types *)

\* a descriptor without an input schema or with a null property entry
Malformed(d) ==
    \/ "inputSchema" \notin DOMAIN d
    \/ /\ "properties" \in DOMAIN d.inputSchema
       /\ \E key \in DOMAIN d.inputSchema.properties :
              d.inputSchema.properties[key] = NullProperty

\* C16: when the fetched catalog contains a malformed descriptor, building
\* the catalog skips it and still adapts every other descriptor; the
\* malformed descriptor neither aborts the build nor fails the request.
C16_MalformedDescriptorSkipped ==
    \A i \in 1..Len(listLog) :
        LET fetched == listLog[i].listed.value IN
        (\E k \in 1..Len(fetched) : Malformed(fetched[k])) =>
            /\ res = <<StreamResponse>>
            /\ tools.built
            /\ \A k \in 1..Len(fetched) :
                  fetched[k].name \in DOMAIN tools.catalog <=> ~Malformed(fetched[k])

\* the adapted type the claim gives for a declared type
StrictTypeOf(propSchema) ==
    IF "type" \notin DOMAIN propSchema THEN "any"
    ELSE IF propSchema.type \in {"number", "integer"} THEN "number"
    ELSE IF propSchema.type \in {"string", "boolean", "array", "object"}
    THEN propSchema.type
    ELSE "any"

\* a catalog was built from one well-formed descriptor
AdaptedOne ==
    /\ "from" \in DOMAIN tools
    /\ ~Malformed(tools.from[1])

\* C17: jsonSchemaToZod maps every declared parameter to exactly one adapted
\* type, string, number/integer, boolean, array and object to the
\* corresponding strict type and any other or missing declared type to the
\* permissive type, without failing; a parameter is optional in the adapted
\* definition if and only if its name is not in the schema's required set.
C17_AdaptedTypes ==
    AdaptedOne =>
        LET d == tools.from[1]
            properties == IF "properties" \in DOMAIN d.inputSchema
                          THEN d.inputSchema.properties ELSE <<>>
            required == IF "required" \in DOMAIN d.inputSchema
                        THEN d.inputSchema.required ELSE {}
        IN  /\ tools.built
            /\ DOMAIN tools.catalog = {d.name}
            /\ DOMAIN tools.catalog[d.name].parameters = DOMAIN properties
            /\ \A key \in DOMAIN properties :
                  LET adapted == tools.catalog[d.name].parameters[key] IN
                  /\ adapted.inner.type = StrictTypeOf(properties[key])
                  /\ adapted.optional <=> key \notin required

C17_Witness ==
    /\ AdaptedOne
    /\ tools.built
    /\ tools.from = <<[name |-> "tool",
                       inputSchema |->
                           [properties |-> [p |-> [description |-> "no type"]]]]>>
    /\ tools.catalog["tool"].parameters.p = Optional([type |-> "any"])

----------------------------------------------------------------------------
(* Tool-timing events of the streaming run *)

\* the events due for the first n completed steps: for each step in order,
\* one event per tool call with the step's duration and 1-based index
RECURSIVE EventsDue(_)
EventsDue(n) ==
    IF n = 0 THEN <<>>
    ELSE EventsDue(n - 1) \o
         [i \in 1..Len(stepLog[n].toolCalls) |->
             [type |-> "data-tool-timing",
              data |-> [toolCallId |-> stepLog[n].toolCalls[i].toolCallId,
                        duration |-> stepLog[n].finished - stepLog[n].started,
                        stepNumber |-> n,
                        toolName |-> stepLog[n].toolCalls[i].toolName]]]

\* C18: every completed step with tool calls emits exactly one tool-timing
\* event per tool call, with the call's toolCallId and toolName, the step's
\* duration and the 1-based index of the step as stepNumber; a step without
\* tool calls emits no event but advances the index; stepNumber never
\* decreases from one event to the next and never exceeds the step cap of 25.
C18_TimingEventsPerStep ==
    /\ stepCount = Len(stepLog)
    /\ events = EventsDue(Len(stepLog))
    /\ \A i \in 1..Len(events) :
          /\ events[i].data.stepNumber >= 1
          /\ events[i].data.stepNumber <= StepCap
          /\ i > 1 => events[i - 1].data.stepNumber <= events[i].data.stepNumber

C18_Witness ==
    /\ run = "finished"
    /\ stepCount = StepCap
    /\ events[Len(events)].data.stepNumber = StepCap
    /\ \E k \in 1..Len(stepLog) :
          Len(stepLog[k].toolCalls) = 2 /\ stepLog[k].finished - stepLog[k].started = 2

----------------------------------------------------------------------------
(* The model credential *)

\* a chat request arrived whose body passes the handler's validation
ValidRequest ==
    \/ route = "backend" /\ ~RejectedMessage(req.message)
    \/ route = "stream" /\ req.body.json /\ req.body.messages = "array"

\* C19: GET /health reports the key as configured exactly when a POST
\* /sendMessage with a valid message proceeds to invoke the model; when the
\* credential is absent, the chat handlers answer an otherwise valid request
\* with a 500-class error and make no model invocation and no call to the
\* tool endpoint.
C19_CredentialDetectable ==
    /\ (health # <<>> /\ route = "backend" /\ ValidRequest) =>
          (health[1].body.api_key_configured <=> modelLog # <<>>)
    /\ (ValidRequest /\ ~req.apiKey) =>
          /\ pc = "done"
          /\ Len(res) = 1 /\ res[1].status = 500
          /\ modelLog = <<>> /\ toolLog = <<>>
          /\ listLog = <<>> /\ run = "none"

C19_Witness ==
    /\ health # <<>>
    /\ route = "backend"
    /\ ValidRequest
    /\ ~req.apiKey
    /\ ~health[1].body.api_key_configured
    /\ res[1].status = 500

----------------------------------------------------------------------------
(* Concurrent requests *)

\* the variables of a request served alone after n of its calls resolved,
\* the k-th at time k
RECURSIVE Alone(_, _, _)
Alone(kind, script, n) ==
    IF n = 0 THEN Fresh(kind, script, 0)
    ELSE Advance(Alone(kind, script, n - 1), n)

\* conversation history, iteration records, final response, step counter and
\* position of an invocation
Observable(l) ==
    IF l.kind = "backend"
    THEN <<l.at, l.messages, l.iterations, l.finalResponse, l.sql, l.data,
           l.iterationCount>>
    ELSE <<l.at, l.stepCount, Len(l.events)>>

\* C20: concurrent chat requests share no mutable state: however the steps
\* of two requests interleave, each request's conversation history,
\* iteration records, step counter and final response are those of the
\* request run alone with the same model and tool answers.
C20_RequestsIsolated ==
    \A r \in Requests :
        sessions[r].given.kind # "none" =>
            /\ sessions[r].local.at # "idle"
            /\ sessions[r].local.kind = sessions[r].given.kind
            /\ Observable(sessions[r].local) =
                  Observable(Alone(sessions[r].given.kind, sessions[r].given.script,
                                   sessions[r].taken))

C20_Witness ==
    /\ sessions[1].given.kind = "stream"
    /\ sessions[2].given.kind = "backend"
    /\ sessions[1].local.at = "done" /\ sessions[2].local.at = "done"
    /\ Len(sessions[2].local.iterations) = 3
    /\ \E i \in 1..Len(sessions[1].local.events) :
          sessions[1].local.events[i].data.duration > 1

----------------------------------------------------------------------------
(* The history of a backend run *)

\* the tool_use blocks of a response content, in the order of the content
ToolUseBlocksOf(content) == SelectSeq(content, LAMBDA b : b.type = "tool_use")

\* the call identifiers of the tool_use blocks of a content, in order
ToolUseIds(content) ==
    LET blocks == ToolUseBlocksOf(content) IN
    [i \in 1..Len(blocks) |-> blocks[i].id]

\* the call identifiers the tool results of a message carry, in order
ResultIds(results) == [i \in 1..Len(results) |-> results[i].tool_use_id]

\* the tool-use steps whose response the model has given and that are over
StepsFolded ==
    { k \in 1..Len(modelLog) :
        /\ modelLog[k].outcome = "tool_use"
        /\ (k < Len(modelLog) \/ pc \in {"loop", "done"}) }

\* C21: every response of a tool-use step is in the history followed directly
\* by the tool-results message, which holds, in the order of the response's
\* tool-call blocks, exactly one tool result per block with that block's call
\* identifier, for failed calls and successful ones alike, and no other tool
\* result; the step is folded in this way before the next model invocation.
C21_ResultsMatchCalls ==
    /\ \A i \in 1..Len(messages) :
          messages[i].role = "assistant" =>
              /\ i < Len(messages)
              /\ messages[i + 1].role = "user"
              /\ ResultIds(messages[i + 1].content) = ToolUseIds(messages[i].content)
    /\ \A k \in StepsFolded :
          /\ Len(messages) >= 2 * k + 1
          /\ messages[2 * k] = [role |-> "assistant",
                                content |-> WithIds(modelLog[k].content, k)]

C21_Witness ==
    /\ pc = "model"
    /\ Len(messages) >= 3
    /\ Len(messages[3].content) = 2
    /\ "is_error" \in DOMAIN messages[3].content[1]
    /\ "is_error" \notin DOMAIN messages[3].content[2]

RECURSIVE RequestedIds(_)
\* the call identifiers of the tool-call blocks of the first n responses that
\* were tool-use steps, in the order the model emitted them
RequestedIds(n) ==
    IF n = 0 THEN <<>>
    ELSE RequestedIds(n - 1)
         \o (IF modelLog[n].outcome = "tool_use"
             THEN ToolUseIds(WithIds(modelLog[n].content, n)) ELSE <<>>)

\* the call identifiers of the tool calls sent in the run, in the order they
\* were sent
SentIds == [i \in 1..Len(toolLog) |-> toolLog[i].id]

\* C22: the tool calls of a run are sent one at a time: a call is sent only
\* when every earlier call has resolved, the calls sent are the tool-call
\* blocks of the tool-use responses, each sent once, in the order the model
\* emitted them, and a model invocation is made only when every call of the
\* steps before it has been sent and has resolved.
C22_CallsSequential ==
    /\ \A i \in 1..Len(toolLog) :
          ~toolLog[i].settled => (i = Len(toolLog) /\ pc = "tool")
    /\ pc = "tool" => ~Last(toolLog).settled
    /\ IF pc \in {"blocks", "tool"}
       THEN IsPrefix(SentIds, RequestedIds(Len(modelLog)))
       ELSE SentIds = RequestedIds(Len(modelLog))
    /\ pc = "model" => \A i \in 1..Len(toolLog) : toolLog[i].settled

C22_Witness ==
    /\ pc = "model"
    /\ Len(modelLog) = 3
    /\ Len(CallsOf(1)) = 2
    /\ Len(CallsOf(2)) = 1
    /\ FailedCall(CallsOf(1)[1])

\* C23: the history of a backend run starts as the user's message alone and
\* is only ever extended at its end, so what the model is sent at one
\* invocation is a prefix of what it is sent at every later one; the history
\* is extended only at the end of a tool-use step, by the model's response
\* of that step followed by the tool-results message of that step.
C23_HistoryAppendOnly ==
    [][/\ (pc = "idle" /\ pc' = "loop") =>
              messages' = <<[role |-> "user", content |-> req'.message.value]>>
       /\ pc # "idle" =>
              /\ IsPrefix(messages, messages')
              /\ messages' # messages =>
                    /\ pc = "blocks" /\ pc' = "loop"
                    /\ response.stop_reason = "tool_use"
                    /\ response.content = WithIds(Last(modelLog).content, Len(modelLog))
                    /\ messages' = messages \o
                          <<[role |-> "assistant", content |-> response.content],
                            [role |-> "user", content |-> toolResults]>>
       /\ (pc = "idle" /\ pc' # "loop") => messages' = messages
      ]_vars

\* the model is invoked for the third time, with a history of five messages
C23_Witness ==
    /\ pc = "model"
    /\ Len(modelLog) = 3
    /\ Len(messages) = 5
    /\ messages[1] = [role |-> "user", content |-> <<"h", "i">>]

\* a stop condition that ends the loop: end_turn or an unexpected one
EndsLoop(outcome) == outcome \in StopReasons \ {"tool_use"}

\* C24: a response with stop_reason end_turn, or with a stop_reason that is
\* neither end_turn nor tool_use, ends the loop for good: it is the last model
\* invocation of the run, no tool call is made for it (its tool-call blocks,
\* if any, are not executed), the history stays as it was sent, and the one
\* response the run gives is the success response.
C24_TerminatedIsAbsorbing ==
    \A i \in 1..Len(modelLog) :
        EndsLoop(modelLog[i].outcome) =>
            /\ i = Len(modelLog)
            /\ pc \in {"loop", "done"}
            /\ ~LoopGuard
            /\ \A j \in 1..Len(toolLog) : toolLog[j].settled /\ toolLog[j].id[1] < i
            /\ Len(messages) = 2 * i - 1
            /\ pc = "loop" => res = <<>>
            /\ pc = "done" => Len(res) = 1 /\ res[1].status = 200

C24_Witness ==
    /\ pc = "done"
    /\ Len(modelLog) = 2
    /\ modelLog[2].outcome = "max_tokens"
    /\ CountType(modelLog[2].content, "tool_use") >= 1
    /\ Len(toolLog) = 1
    /\ res[1].status = 200

----------------------------------------------------------------------------
(* The most recent sql and data of a backend run *)

\* a logged tool call that ended in the catch block of the step
CallThrew(e) == e.settled /\ ToolCallEffect(callMcpTool(e.outcome)).failed

\* the logged tool calls that did not end in the catch block
CallsSucceeded == SelectSeq(toolLog, LAMBDA e : e.settled /\ ~CallThrew(e))

\* every call of the run was a query_clickhouse call with a query, and every
\* call that succeeded was answered with rows
OnlyQueriesWithRows ==
    /\ \A i \in 1..Len(toolLog) :
          toolLog[i].name = "query_clickhouse" /\ toolLog[i].query # ""
    /\ \A i \in 1..Len(CallsSucceeded) : RowsCarried(CallsSucceeded[i].outcome).has

\* C25: only a tool call that succeeds sets the run's most recent sql and
\* data, a failed call leaving both as they were: on a success response of a
\* run of query_clickhouse calls, sql is the query and data the rows of the
\* last call that succeeded (empty when none succeeded), so the returned sql
\* is the input of the call that produced the returned data.
C25_SqlAndDataOfOneCall ==
    (Succeeded /\ OnlyQueriesWithRows) =>
        IF CallsSucceeded = <<>>
        THEN sql = "" /\ data = <<>>
        ELSE /\ sql = Last(CallsSucceeded).query
             /\ data = RowsCarried(Last(CallsSucceeded).outcome).rows

----------------------------------------------------------------------------
(* Raw tool results handled by the gateway of either loop *)

\* the raw results handled in one behaviour
MaxHandled == 2

\* a query_clickhouse call as the n-th tool_use block of a response
HandledBlock(n) ==
    [type |-> "tool_use", id |-> <<1, n>>, name |-> "query_clickhouse",
     input |-> [query |-> "SELECT 1"]]

\* the results handled so far
Handled == IF toolCall.variant = "results" THEN toolCall.calls ELSE <<>>

RECURSIVE IterationDataAfter(_)
\* iterationData after the backend handled its share of these results
IterationDataAfter(calls) ==
    IF calls = <<>> THEN <<>>
    ELSE IF Last(calls).gateway = "backend"
    THEN Last(calls).iterationData
    ELSE IterationDataAfter(SubSeq(calls, 1, Len(calls) - 1))

\* the try and catch blocks of the tool_use branch of POST /sendMessage for
\* one block whose call settles with this outcome
BackendHandles(outcome) ==
    /\ pc = "idle"
    /\ ~tools.built
    /\ toolCall.variant \in {"none", "results"}
    /\ Len(Handled) < MaxHandled
    /\ LET block == HandledBlock(Len(Handled) + 1)
           ret == callMcpTool(outcome)
           eff == ToolCallEffect(ret)
       IN  toolCall' =
             [variant |-> "results",
              calls |-> Append(Handled,
                  [gateway |-> "backend", outcome |-> outcome, ret |-> ret,
                   effect |-> eff,
                   iterationData |-> IF eff.assigns THEN eff.rows
                                     ELSE IterationDataAfter(Handled),
                   result |-> ToolResultBlock(block, ret)])]
    /\ UNCHANGED <<pc, route, req, loopVars, stepVars, res, modelLog, toolLog>>
    /\ UNCHANGED <<health, streamVars, sessions, sidebar>>

\* execute of the adapted tool for a call that settles with this outcome
FrontendHandles(outcome) ==
    /\ pc = "idle"
    /\ ~tools.built
    /\ toolCall.variant \in {"none", "results"}
    /\ Len(Handled) < MaxHandled
    /\ LET ret == callMcpTool(outcome) IN
       toolCall' =
         [variant |-> "results",
          calls |-> Append(Handled,
              [gateway |-> "frontend", outcome |-> outcome, ret |-> ret,
               output |-> Execute(ret)])]
    /\ UNCHANGED <<pc, route, req, loopVars, stepVars, res, modelLog, toolLog>>
    /\ UNCHANGED <<health, streamVars, sessions, sidebar>>

ResultNext ==
    \/ \E outcome \in FetchOutcomes : BackendHandles(outcome)
    \/ \E outcome \in FetchOutcomes : FrontendHandles(outcome)

ResultSpec == Init /\ [][ResultNext]_vars

\* the handled calls whose outcome was a result payload
WithPayload ==
    { i \in 1..Len(Handled) :
        /\ Handled[i].outcome.kind = "json"
        /\ "result" \in DOMAIN Handled[i].outcome.body }

\* the result payload of a handled call
Payload(i) == Handled[i].outcome.body.result

HasStructured(r) == "structuredContent" \in DOMAIN r

HasText(r) == FirstText(r) # ""

\* the rows of an object, the empty sequence when it has none
RowsOf(object) == IF "rows" \in DOMAIN object THEN object.rows ELSE <<>>

\* the extraction took the structured content and nothing else
FromStructured(c, r) ==
    IF c.gateway = "frontend"
    THEN c.output = [status |-> "return", from |-> "structuredContent",
                     value |-> r.structuredContent]
    ELSE /\ ~c.effect.failed /\ c.effect.assigns
         /\ c.effect.rows = RowsOf(r.structuredContent)
         /\ c.iterationData = RowsOf(r.structuredContent)

\* the extraction took the JSON of the first text block, when it is the JSON
\* of an object
FromText(c, r) ==
    LET parsed == JSONParse(FirstText(r)) IN
    parsed.kind = "object" =>
        IF c.gateway = "frontend"
        THEN c.output = [status |-> "return", from |-> "json", value |-> parsed]
        ELSE /\ ~c.effect.failed /\ c.effect.assigns
             /\ c.effect.rows = RowsOf(parsed.value)
             /\ c.iterationData = RowsOf(parsed.value)

\* the payload was passed through as it came
PassedThrough(c, r) ==
    IF c.gateway = "frontend"
    THEN c.output = [status |-> "return", from |-> "result", value |-> r]
    ELSE /\ ~c.effect.failed /\ ~c.effect.assigns
         /\ c.result.content = [stringified |-> r]

\* one source, in the fixed order
OneSourceInOrder(c, r) ==
    IF HasStructured(r) THEN FromStructured(c, r)
    ELSE IF HasText(r) THEN FromText(c, r)
    ELSE PassedThrough(c, r)

\* handling the same raw result again gives the same
SameAgain ==
    \A i, j \in 1..Len(Handled) :
        (Handled[i].gateway = Handled[j].gateway
         /\ Handled[i].outcome = Handled[j].outcome) =>
            IF Handled[i].gateway = "frontend"
            THEN Handled[i].output = Handled[j].output
            ELSE /\ Handled[i].effect = Handled[j].effect
                 /\ Handled[i].result.content = Handled[j].result.content

OutputRows(output) ==
    IF output.status # "return" THEN <<>>
    ELSE IF output.from = "structuredContent" THEN RowsOf(output.value)
    ELSE IF output.from = "json" /\ output.value.kind = "object"
    THEN RowsOf(output.value.value)
    ELSE <<>>

\* the rows the backend loop extracted from a result
EffectRows(effect) == IF effect.assigns THEN effect.rows ELSE <<>>

\* C27: for the same raw tool result the backend loop and the streaming loop
\* classify the call alike, both as failed or both as succeeded, and
\* surface the same rows.
C27_GatewaysAgree ==
    \A i, j \in 1..Len(Handled) :
        (/\ Handled[i].gateway = "backend"
         /\ Handled[j].gateway = "frontend"
         /\ Handled[i].outcome = Handled[j].outcome) =>
            /\ Handled[i].effect.failed <=> Handled[j].output.status = "throw"
            /\ EffectRows(Handled[i].effect) = OutputRows(Handled[j].output)

\* C28: a tool call that fails in the backend loop is fed back to the model
\* with the error text of its cause: the message thrown by the transport,
\* the message of the endpoint's error envelope, and, for a query that
\* failed in query_clickhouse, the message of that failure.
C28_FailureCauseReachesModel ==
    toolCall.variant = "backend" =>
        /\ toolCall.net = "reject" =>
              toolCall.effect = [failed |-> TRUE, assigns |-> FALSE,
                                 message |-> "fetch failed"]
        /\ toolCall.net = "malformed" =>
              toolCall.effect = [failed |-> TRUE, assigns |-> FALSE,
                                 message |-> "Unexpected token"]
        /\ (toolCall.net = "ok" /\ ~ValidArguments(toolCall.arguments)) =>
              toolCall.effect = [failed |-> TRUE, assigns |-> FALSE,
                                 message |-> "Invalid arguments"]
        /\ (toolCall.net = "ok" /\ ValidArguments(toolCall.arguments)
            /\ toolCall.db.fails) =>
              toolCall.effect = [failed |-> TRUE, assigns |-> FALSE,
                                 message |-> QueryErrorText]

\* the roles of a history alternate, from user to user
Alternates(history) ==
    /\ Len(history) % 2 = 1
    /\ \A i \in 1..Len(history) :
          history[i].role = IF i % 2 = 1 THEN "user" ELSE "assistant"

\* C29: the history of a backend run alternates between user and assistant
\* messages, begins and ends with a user message and has one message plus
\* two per tool-use step completed; at a model invocation every earlier
\* invocation was a tool-use step that is completed; a run that stops at the
\* iteration cap leaves a history whose last two messages, the response and
\* the tool results of the fifth step, were added after the last invocation.
C29_HistoryAlternates ==
    LoopStarted =>
        /\ Alternates(messages)
        /\ Len(messages) = 1 + 2 * Cardinality(StepsFolded)
        /\ pc = "model" =>
              /\ StepsFolded = 1..(Len(modelLog) - 1)
              /\ Len(messages) = 2 * Len(modelLog) - 1
        /\ (pc \in {"loop", "done"} /\ continueLoop
            /\ iterationCount = maxIterations
            /\ Last(modelLog).outcome = "tool_use") =>
              /\ Len(modelLog) = maxIterations
              /\ Len(messages) = 2 * maxIterations + 1
              /\ Last(messages) = [role |-> "user", content |-> toolResults]
              /\ messages[2 * maxIterations].content = response.content

C29_Witness ==
    /\ pc = "done" /\ LoopStarted
    /\ continueLoop
    /\ Len(modelLog) = maxIterations
    /\ Len(messages) = 11
    /\ res[1].status = 200

----------------------------------------------------------------------------
(* The ChatSidebar component: handleSendMessage *)

\* the submits the component accepts in one behaviour
MaxSubmits == 2

\* what the user types into the textarea
InputValues == { <<>>, <<" ">>, <<"h">>, <<" ", "q", " ">> }

\* the iteration records of a response body
TextIteration == [text |-> "t1"]
QueryIteration == [text |-> "t2", sql |-> "SELECT 1", data |-> <<"r1">>]
BareIteration == [sql |-> "SELECT 2"]

\* the JSON bodies of a response with an ok status
ResultBodies ==
    { [response |-> "t1t2", sql |-> "SELECT 1", data |-> <<"r1">>,
       iterations |-> <<TextIteration, QueryIteration>>],
      [response |-> "", sql |-> "SELECT 2", data |-> <<>>,
       iterations |-> <<BareIteration>>],
      [response |-> "answer", sql |-> "", data |-> <<>>, iterations |-> <<>>],
      [response |-> "", sql |-> "", data |-> <<>>, iterations |-> <<>>],
      [response |-> "answer"],
      [null |-> TRUE] }

\* how fetch and response.json() end for one request
SidebarOutcomes ==
    { [kind |-> "reject", message |-> "Failed to fetch"],
      [kind |-> "status", statusText |-> "Bad Request"],
      [kind |-> "status", statusText |-> "Internal Server Error"],
      [kind |-> "unparsable", message |-> "Unexpected token"] }
    \cup { [kind |-> "json", body |-> b] : b \in ResultBodies }

\* an optional field of a JSON object
Field(object, name) ==
    IF name \in DOMAIN object THEN [value |-> object[name]] ELSE Undefined

UserMessage(content) == [role |-> "user", content |-> content]

\* the message of the catch block
ErrorMessage(message) ==
    [role |-> "assistant",
     content |-> "Sorry, I encountered an error: " \o message
                 \o ". Please make sure the backend is running."]

\* the message built from one iteration record
IterationMessage(iteration) ==
    [role |-> "assistant",
     content |-> IF "text" \in DOMAIN iteration THEN iteration.text ELSE "",
     sql |-> Field(iteration, "sql"),
     data |-> Field(iteration, "data")]

\* the single message built when the body has no iteration records
FallbackMessage(result) ==
    [role |-> "assistant",
     content |-> IF "response" \in DOMAIN result /\ result.response # ""
                 THEN result.response
                 ELSE "I received your message but couldn't generate a response.",
     sql |-> Field(result, "sql"),
     data |-> Field(result, "data")]

\* AssistantMessages without the fallback message
AssistantMessagesNoFallback(outcome) ==
    IF outcome.kind = "reject" THEN <<ErrorMessage(outcome.message)>>
    ELSE IF outcome.kind = "status"
    THEN <<ErrorMessage("API error: " \o outcome.statusText)>>
    ELSE IF outcome.kind = "unparsable" THEN <<ErrorMessage(outcome.message)>>
    ELSE IF "null" \in DOMAIN outcome.body
    THEN <<ErrorMessage("Cannot read properties of null (reading 'iterations')")>>
    ELSE IF "iterations" \in DOMAIN outcome.body
    THEN [i \in 1..Len(outcome.body.iterations) |->
             IterationMessage(outcome.body.iterations[i])]
    ELSE <<>>

\* the messages the try, catch and finally blocks append when the request
\* settles
AssistantMessages(outcome) ==
    IF outcome.kind = "reject" THEN <<ErrorMessage(outcome.message)>>
    ELSE IF outcome.kind = "status"
    THEN <<ErrorMessage("API error: " \o outcome.statusText)>>
    ELSE IF outcome.kind = "unparsable" THEN <<ErrorMessage(outcome.message)>>
    ELSE IF "null" \in DOMAIN outcome.body
    THEN <<ErrorMessage("Cannot read properties of null (reading 'iterations')")>>
    ELSE IF "iterations" \in DOMAIN outcome.body
            /\ Len(outcome.body.iterations) > 0
    THEN [i \in 1..Len(outcome.body.iterations) |->
             IterationMessage(outcome.body.iterations[i])]
    ELSE <<FallbackMessage(outcome.body)>>

\* the requests sent and not yet settled
Outstanding == { i \in 1..Len(sidebar.fetches) : ~sidebar.fetches[i].settled }

\* onChange of the textarea, which is disabled while isLoading
SetInput(text) ==
    /\ ~sidebar.isLoading
    /\ text # sidebar.input
    /\ sidebar' = [sidebar EXCEPT !.input = text]
    /\ UNCHANGED <<pc, route, req, loopVars, stepVars, res, modelLog, toolLog>>
    /\ UNCHANGED <<health, streamVars, toolCall, sessions>>

\* handleSendMessage up to the await of fetch
HandleSendMessage ==
    /\ IF ~Truthy(Trim(sidebar.input)) \/ sidebar.isLoading
       THEN sidebar' = [sidebar EXCEPT
                          !.ignored = @ \cup
                              {IF sidebar.isLoading THEN "loading" ELSE "empty"}]
       ELSE /\ Len(sidebar.fetches) < MaxSubmits
            /\ sidebar' = [sidebar EXCEPT
                  !.messages = Append(@, UserMessage(Trim(sidebar.input))),
                  !.input = <<>>,
                  !.isLoading = TRUE,
                  !.fetches = Append(@, [message |-> Trim(sidebar.input),
                                         at |-> Len(sidebar.messages) + 1,
                                         settled |-> FALSE])]
    /\ UNCHANGED <<pc, route, req, loopVars, stepVars, res, modelLog, toolLog>>
    /\ UNCHANGED <<health, streamVars, toolCall, sessions>>

\* the request settles: the rest of the try block, or the catch block, and
\* the finally block
FetchSettles(outcome) ==
    /\ Outstanding # {}
    /\ LET i == CHOOSE i \in Outstanding : \A j \in Outstanding : i <= j IN
       sidebar' = [sidebar EXCEPT
             !.messages = @ \o AssistantMessages(outcome),
             !.isLoading = FALSE,
             !.fetches[i] = [message |-> @.message, at |-> @.at, settled |-> TRUE,
                             outcome |-> outcome,
                             upTo |-> Len(sidebar.messages)
                                      + Len(AssistantMessages(outcome))]]
    /\ UNCHANGED <<pc, route, req, loopVars, stepVars, res, modelLog, toolLog>>
    /\ UNCHANGED <<health, streamVars, toolCall, sessions>>

SidebarNext ==
    \/ \E text \in InputValues : SetInput(text)
    \/ HandleSendMessage
    \/ \E outcome \in SidebarOutcomes : FetchSettles(outcome)

SidebarSpec == Init /\ [][SidebarNext]_vars

\* the messages a settled request is answered with in the list
AnswerOf(f) == SubSeq(sidebar.messages, f.at + 1, f.upTo)

\* the answer to a settled request: one message per returned iteration, in
\* order and with its text, else a single message
AnswersAsDue(f) ==
    LET answer == AnswerOf(f)
        returned ==
            IF f.outcome.kind = "json" /\ "iterations" \in DOMAIN f.outcome.body
            THEN f.outcome.body.iterations ELSE <<>>
    IN  /\ Len(answer) >= 1
        /\ \A k \in 1..Len(answer) : answer[k].role = "assistant"
        /\ IF returned # <<>>
           THEN /\ Len(answer) = Len(returned)
                /\ \A k \in 1..Len(returned) :
                      /\ answer[k].content = IF "text" \in DOMAIN returned[k]
                                             THEN returned[k].text ELSE ""
                      /\ answer[k].sql = Field(returned[k], "sql")
                      /\ answer[k].data = Field(returned[k], "data")
           ELSE Len(answer) = 1

\* the list is the accepted submits in order, each followed by its answer
ListOfSubmits ==
    LET f == sidebar.fetches
        m == sidebar.messages
    IN  /\ Len(SelectSeq(m, LAMBDA x : x.role = "user")) = Len(f)
        /\ \A i \in 1..Len(f) :
              /\ f[i].at = IF i = 1 THEN 1 ELSE f[i - 1].upTo + 1
              /\ f[i].message # <<>> /\ Trim(f[i].message) = f[i].message
              /\ m[f[i].at] = UserMessage(f[i].message)
              /\ IF f[i].settled
                 THEN /\ AnswersAsDue(f[i])
                      /\ i = Len(f) => f[i].upTo = Len(m)
                 ELSE i = Len(f) /\ f[i].at = Len(m)

\* C30: handleSendMessage ignores a submit when the trimmed input is empty
\* or while isLoading, so at most one request is outstanding; an accepted
\* submit appends exactly one user message and, when its request settles
\* (success, HTTP error or thrown error), one assistant message per returned
\* iteration in order, else a single fallback or error message, and
\* isLoading is false again; the message list only ever grows.
C30_OneRequestAtATime ==
    /\ [](/\ Cardinality(Outstanding) <= 1
          /\ sidebar.isLoading <=> Outstanding # {}
          /\ ListOfSubmits)
    /\ [][/\ IsPrefix(sidebar.messages, sidebar'.messages)
          /\ Len(sidebar'.fetches) > Len(sidebar.fetches) =>
                /\ ~sidebar.isLoading /\ Truthy(Trim(sidebar.input))
                /\ sidebar'.messages =
                      Append(sidebar.messages, UserMessage(Trim(sidebar.input)))
                /\ sidebar'.isLoading
          /\ (sidebar.isLoading /\ ~sidebar'.isLoading) =>
                /\ Len(sidebar'.messages) > Len(sidebar.messages)
                /\ Outstanding # {}
         ]_vars

\* two submits were accepted and answered, one with the messages of two
\* iterations and one with an error message, and submits were ignored for
\* both reasons
C30_Witness ==
    /\ Len(sidebar.fetches) = 2
    /\ ~sidebar.isLoading
    /\ sidebar.ignored = {"empty", "loading"}
    /\ sidebar.fetches[1].outcome.kind = "json"
    /\ Len(AnswerOf(sidebar.fetches[1])) = 2
    /\ sidebar.fetches[2].outcome.kind = "status"
    /\ Len(sidebar.messages) = 5

====
